---- MODULE Spec2Model ----
(***************************************************************************)
(* A model of the kryvos gate library: the wire algebra with its           *)
(* constraint counters (src/groups/wiregroup.py), the assertion,           *)
(* comparison, bit, branching and list gates (src/gates/*.py), the         *)
(* Montgomery curve gates (src/gates/ecsmontgomery.py) and the IRV         *)
(* subsystem (src/gates/voting/irv.py).                                     *)
(*                                                                         *)
(* Values.  A Python operand is either a Wire or a plain int; both are     *)
(* records with the fields kind, value, is_const and modulus.  A raised    *)
(* Python exception is the record whose kind is the exception's class;     *)
(* every operation that receives one returns it (the exception propagates  *)
(* to the caller).                                                          *)
(***************************************************************************)
EXTENDS Integers, Sequences, FiniteSets, TLC

VARIABLES n_mul,      \* Wire.n_mul, the process-wide constraint counter
          n_wires,    \* Wire.n_wires, the process-wide wire counter
          acc,        \* the wire the caller currently holds
          last,       \* the last wire operation: its name, operands, result
          cmp,        \* one comparison-gate call: its inputs and its result
          ec,         \* one curve-gate call: its inputs and its result
          irv,        \* the IRV driver, its ballot manager and eliminator
          gate        \* one ballot, tally or arithmetic gate call: inputs, result

vars == <<n_mul, n_wires, acc, last, cmp, ec, irv, gate>>

(***************************************************************************)
(* Bounds of the model.                                                    *)
(***************************************************************************)
WireModulus == 5      \* modulus of the wire-algebra machine
MaxCount == 3         \* cap of the two counters in the wire-algebra machine
MaxInt == 2           \* plain-integer operands range over -MaxInt..MaxInt
MaxModulus == 17      \* the comparison gates run over every prime up to it
MaxBits == 4          \* the comparison gates' bits argument ranges over 0..MaxBits
MaxScale == 2         \* the second curve point comes in the scalings 1..MaxScale
MaxBallots == 3       \* at most MaxBallots ballots are cast into one ballot manager
MaxBallotModulus == 5 \* the ballot gates run over every prime up to it
MaxBallotLen == 3     \* a list ballot has at most MaxBallotLen entries
MaxPoints == 2        \* a points list or grades list has at most MaxPoints entries
MaxMaxChoices == 2    \* max_choices is None or a wire of 0..MaxMaxChoices
MaxMatrixModulus == 3 \* matrix ballots are drawn over the primes up to it
MaxMatrixSize == 3    \* a matrix ballot has 2..MaxMatrixSize choices
MaxRanking == 3       \* a ranking has 1..MaxRanking choices
MaxCommitted == 2     \* messages and randomness of a commitment are 0..MaxCommitted
MaxExponentBits == 4  \* an exponent bit list has 1..MaxExponentBits bits
MaxTally == 3         \* a pairwise tally has 1..MaxTally choices
MaxTallyBits == 2     \* the entries of a tally have 1..MaxTallyBits bits
MaxCountModulus == 3  \* the curve gates are counted over the odd primes up to it
MaxThresholdLen == 2  \* is_threshold_reached is called on lists of 0..MaxThresholdLen wires
MaxCastChoices == 2   \* orderings are cast into ballot managers of 1..MaxCastChoices choices
MaxCasts == 2         \* an election's ballot box is filled by at most MaxCasts calls
MaxRecasts == 3       \* a re-election's ballot box is filled by at most MaxRecasts calls
MaxRecastLen == 2     \* with orderings of at most MaxRecastLen choices
MaxRecastVotes == 2   \* and at most MaxRecastVotes votes a call

\* the tournament-style Borda tests: ranks of 4 bits over GF(251)
TournamentModulus == 251
TournamentBits == 4

\* the election of the test suite: 3 choices, counts of 2 bits over GF(11)
IrvModulus == 11
IrvBits == 2
IrvChoices == 3

\* the curve of the test suite: y^2 = x^3 + 3x^2 + x over GF(13)
EcModulus == 13
CurveA == 3
CurveB == 1

(***************************************************************************)
(* Wire (src/groups/wiregroup.py)                                          *)
(***************************************************************************)
\* Wire.create(value, modulus, is_const)
Wire_create(value, modulus, is_const) ==
    [kind |-> "wire", value |-> value, is_const |-> is_const, modulus |-> modulus]

\* a plain Python int
PyInt(k) == [kind |-> "int", value |-> k, is_const |-> TRUE, modulus |-> 0]

\* a raised exception of class cls
Raise(cls) == [kind |-> cls, value |-> 0, is_const |-> FALSE, modulus |-> 0]

ValueError == Raise("ValueError")

IsWire(x) == x.kind = "wire"
IsInt(x) == x.kind = "int"
IsErr(x) == x.kind \notin {"wire", "int"}

\* WireGroup.gen(x, is_const): the value is stored as given
gen(group, x, is_const) == Wire_create(x, group, is_const)

\* pow(v, -1, m): the inverse of v modulo m, ValueError when there is none
HasInverse(v, m) == \E x \in 0..(m - 1) : (v * x) % m = 1 % m
ModInverse(v, m) == CHOOSE x \in 0..(m - 1) : (v * x) % m = 1 % m

\* Wire.__neg__ ; -k for a plain int
Wire_neg(a) ==
    IF IsErr(a) THEN a
    ELSE IF IsInt(a) THEN PyInt(0 - a.value)
    ELSE Wire_create(a.modulus - a.value, a.modulus, a.is_const)

\* Wire.__add__ and Wire.__radd__ (int + wire is wire + int)
Wire_add(a, b) ==
    IF IsErr(a) THEN a
    ELSE IF IsErr(b) THEN b
    ELSE IF IsInt(a) /\ IsInt(b) THEN PyInt(a.value + b.value)
    ELSE LET self == IF IsWire(a) THEN a ELSE b
             other == IF IsWire(a) THEN b ELSE a
             is_const == IF IsWire(other) /\ ~other.is_const
                         THEN FALSE ELSE self.is_const
         IN Wire_create((self.value + other.value) % self.modulus, self.modulus,
                        is_const)

\* Wire.__sub__ and Wire.__rsub__ : a + (-b)
Wire_sub(a, b) == Wire_add(a, Wire_neg(b))

\* Wire.__mul__ keeping self.is_const whatever the other operand is (a
\* variant C9 must tell from the code)
Wire_mul_KeepsSelfFlag(a, b) ==
    IF IsErr(a) THEN a
    ELSE IF IsErr(b) THEN b
    ELSE IF IsInt(a) /\ IsInt(b) THEN PyInt(a.value * b.value)
    ELSE LET self == IF IsWire(a) THEN a ELSE b
             other == IF IsWire(a) THEN b ELSE a
         IN Wire_create((self.value * other.value) % self.modulus, self.modulus,
                        self.is_const)

\* Wire.__mul__ and Wire.__rmul__ : the value and flag of a * b
Wire_mul(a, b) ==
    IF IsErr(a) THEN a
    ELSE IF IsErr(b) THEN b
    ELSE IF IsInt(a) /\ IsInt(b) THEN PyInt(a.value * b.value)
    ELSE LET self == IF IsWire(a) THEN a ELSE b
             other == IF IsWire(a) THEN b ELSE a
             is_const == IF IsWire(other) /\ ~other.is_const
                         THEN FALSE ELSE self.is_const
         IN Wire_create((self.value * other.value) % self.modulus, self.modulus,
                        is_const)

\* Wire.__mul__ : what a * b adds to n_mul and to n_wires
Wire_mul_count(a, b) ==
    IF IsErr(a) \/ IsErr(b) THEN 0
    ELSE IF IsInt(a) /\ IsInt(b) THEN 0
    ELSE LET other == IF IsWire(a) THEN b ELSE a
         IN IF IsWire(other) /\ ~other.is_const THEN 1 ELSE 0

\* Wire.invert : the value and flag of the inverse
invert(a) ==
    IF IsErr(a) THEN a
    ELSE IF IsInt(a) THEN Raise("AttributeError")
    ELSE IF HasInverse(a.value, a.modulus)
         THEN Wire_create(ModInverse(a.value, a.modulus), a.modulus, a.is_const)
         ELSE ValueError

\* Wire.invert : what it adds to n_mul and to n_wires (before pow can raise)
invert_count(a) == IF IsWire(a) /\ ~a.is_const THEN 1 ELSE 0

\* the inverse operand of Wire.__truediv__ / Wire.__rtruediv__
Wire_div_inv(a, b) ==
    IF IsWire(b) THEN invert(b)
    ELSE IF IsErr(b) THEN b
    ELSE IF HasInverse(b.value, a.modulus)
         THEN PyInt(ModInverse(b.value % a.modulus, a.modulus))
         ELSE ValueError

\* Wire.__truediv__ and Wire.__rtruediv__ : a * b^-1
Wire_div(a, b) ==
    IF IsErr(a) THEN a
    ELSE Wire_mul(a, Wire_div_inv(a, b))

\* what a / b adds to the counters: the inversion, then the product
Wire_div_count(a, b) ==
    invert_count(b) + Wire_mul_count(a, Wire_div_inv(a, b))

(***************************************************************************)
(* WireGroup (src/groups/wiregroup.py) and the Python built-ins used on    *)
(* wires                                                                   *)
(***************************************************************************)
RECURSIVE BinLen(_)
\* len(bin(n)[2:]) for n >= 0: the number of binary digits, 1 for n = 0
BinLen(n) == IF n < 2 THEN 1 ELSE 1 + BinLen(n \div 2)

\* WireGroup.bit_length
bit_length(group) == BinLen(group)

RECURSIVE Pow2(_)
Pow2(n) == IF n <= 0 THEN 1 ELSE 2 * Pow2(n - 1)

RECURSIVE PySumFrom(_, _)
\* sum(wires): 0 + wires[0] + wires[1] + ...
PySumFrom(start, wires) ==
    IF Len(wires) = 0 THEN start
    ELSE PySumFrom(Wire_add(start, Head(wires)), Tail(wires))

PySum(wires) == PySumFrom(PyInt(0), wires)

\* a Python list: the sequence of the values of f, each computed once
PyList(f) == SubSeq(f, 1, Len(f))

\* name = value: the rest of the function body runs with the local variable
\* name holding value, computed once
Bind(value, Rest(_)) == Rest(value)

\* Wire.__eq__ : int(self) == int(other)
Wire_eq(a, b) == a.value = b.value

(***************************************************************************)
(* Assertion gates (src/gates/assertgates.py): TRUE when the gate raises   *)
(* ValueError                                                              *)
(***************************************************************************)
\* assert_equal(group, wires_one, wires_two)
assert_equal(group, wires_one, wires_two) ==
    LET wires_a_sum == Wire_mul(PySum(wires_one), gen(group, 1, FALSE))
        wires_b_sum == PySum(wires_two)
    IN \/ IsErr(wires_a_sum)
       \/ IsErr(wires_b_sum)
       \/ wires_a_sum.value # wires_b_sum.value

\* assert_bit(wire)
assert_bit(wire) ==
    LET res_wire == Wire_mul(wire, Wire_sub(PyInt(1), wire))
    IN IsErr(res_wire) \/ res_wire.value # 0

(***************************************************************************)
(* split (src/gates/bits.py)                                               *)
(***************************************************************************)
RECURSIVE BinDigits(_)
\* bin(n)[2:] as a list of digits, most significant first
BinDigits(n) == IF n < 2 THEN <<n>> ELSE Append(BinDigits(n \div 2), n % 2)

RECURSIVE ZFill(_, _)
\* str.zfill(width): pad with zeros on the left, never cut
ZFill(digits, width) ==
    IF Len(digits) >= width THEN digits ELSE ZFill(<<0>> \o digits, width)

RECURSIVE BitValuesSum(_)
\* the loop over reversed(bits) adding two_exp for every '1'
BitValuesSum(bits) ==
    IF Len(bits) = 0 THEN 0
    ELSE bits[Len(bits)] + 2 * BitValuesSum(SubSeq(bits, 1, Len(bits) - 1))

\* the digit string split works on
split_bits(wire, length) == ZFill(BinDigits(wire.value), length)

\* the list of bit wires split returns
split(group, wire, length) ==
    LET bits == split_bits(wire, length)
    IN PyList([i \in 1..Len(bits) |-> gen(group, bits[i], FALSE)])

\* TRUE when split raises: its assert_equal or one of its assert_bit
split_raises(group, wire, length) ==
    LET bits == split_bits(wire, length)
        bit_wires == split(group, wire, length)
    IN \/ assert_equal(group, <<PyInt(BitValuesSum(bits))>>, <<wire>>)
       \/ \E i \in 1..Len(bit_wires) : assert_bit(bit_wires[i])

(***************************************************************************)
(* gt, lt (src/gates/comparison.py) and assert_gt (assertgates.py)         *)
(***************************************************************************)
\* the bound check as the docstrings word it, "greater or equal halve of the
\* maximum bit size" (a variant C6 must tell from the code)
bits_too_large_GreaterOrEqual(group, bits) == 2 * bits >= bit_length(group)

\* the bound check both gates start with: "bits > max_bits_allowed"
bits_too_large(group, bits) == bits > bit_length(group) \div 2

\* gt deciding with int(wire_one) > int(wire_two) (a variant C5 must tell from
\* the code)
gt_Strict(group, wire_one, wire_two, bits) ==
    IF bits_too_large(group, bits) THEN ValueError
    ELSE LET diff_wire == Wire_sub(wire_one, wire_two)
             ge == wire_one.value > wire_two.value
             value_res_wire == IF ge THEN 1 ELSE 0
             value_b_wire == IF ge THEN diff_wire.value
                             ELSE group - diff_wire.value - 1
             wire_res == gen(group, value_res_wire, FALSE)
             wire_b == gen(group, value_b_wire, FALSE)
             lhs == Wire_mul(Wire_mul(PyInt(2), wire_res), diff_wire)
             rhs == Wire_sub(Wire_add(Wire_add(diff_wire, wire_b), PyInt(1)), wire_res)
         IN IF \/ split_raises(group, wire_b, bits)
               \/ assert_bit(wire_res)
               \/ assert_equal(group, <<lhs>>, <<rhs>>)
            THEN ValueError
            ELSE wire_res

\* gt(group, wire_one, wire_two, bits): the indicator wire, or ValueError
gt(group, wire_one, wire_two, bits) ==
    IF bits_too_large(group, bits) THEN ValueError
    ELSE LET diff_wire == Wire_sub(wire_one, wire_two)
             ge == wire_one.value >= wire_two.value
             value_res_wire == IF ge THEN 1 ELSE 0
             value_b_wire == IF ge THEN diff_wire.value
                             ELSE group - diff_wire.value - 1
             wire_res == gen(group, value_res_wire, FALSE)
             wire_b == gen(group, value_b_wire, FALSE)
             lhs == Wire_mul(Wire_mul(PyInt(2), wire_res), diff_wire)
             rhs == Wire_sub(Wire_add(Wire_add(diff_wire, wire_b), PyInt(1)), wire_res)
         IN IF \/ split_raises(group, wire_b, bits)
               \/ assert_bit(wire_res)
               \/ assert_equal(group, <<lhs>>, <<rhs>>)
            THEN ValueError
            ELSE wire_res

\* lt(group, wire_one, wire_two, bits)
lt(group, wire_one, wire_two, bits) == gt(group, wire_two, wire_one, bits)

\* assert_gt(group, wire_one, wire_two, bits): TRUE when it raises ValueError
assert_gt(group, wire_one, wire_two, bits) ==
    \/ bits_too_large(group, bits)
    \/ LET diff_wire == Wire_sub(wire_one, wire_two)
           wire_b == gen(group, diff_wire.value, FALSE)
       IN \/ ~(wire_one.value >= wire_two.value)
          \/ split_raises(group, wire_b, bits)
          \/ assert_equal(group, <<Wire_mul(PyInt(2), diff_wire)>>,
                          <<Wire_add(diff_wire, wire_b)>>)

(***************************************************************************)
(* eq_zero, eq, eq_zero_multiple, eq_multiple (src/gates/comparison.py)    *)
(***************************************************************************)
\* eq_zero(group, wire): the indicator wire, or ValueError when pow or one of
\* the two assert_equal raises
eq_zero(group, wire) ==
    IF IsErr(wire) THEN wire
    ELSE IF wire.value # 0 /\ ~HasInverse(wire.value, wire.modulus) THEN ValueError
    ELSE LET is_zero == wire.value = 0
             helper_wire == gen(group, IF is_zero THEN 0
                                       ELSE ModInverse(wire.value, wire.modulus), FALSE)
             result_wire == gen(group, IF is_zero THEN 1 ELSE 0, FALSE)
         IN IF \/ assert_equal(group, <<Wire_mul(result_wire, wire)>>, <<gen(group, 0, FALSE)>>)
               \/ assert_equal(group, <<Wire_mul(wire, helper_wire)>>,
                               <<Wire_sub(PyInt(1), result_wire)>>)
            THEN ValueError
            ELSE result_wire

\* eq(group, wire_one, wire_two)
eq(group, wire_one, wire_two) == eq_zero(group, Wire_sub(wire_one, wire_two))

\* eq_zero_multiple(group, wires): works on the integer sum(wires).value
eq_zero_multiple(group, wires) ==
    LET total == PySum(wires)
    IN IF IsErr(total) THEN total
       ELSE IF IsInt(total) THEN Raise("AttributeError")
       ELSE IF total.value # 0 /\ ~HasInverse(total.value, group) THEN ValueError
       ELSE LET sum_value == total.value
                is_zero == sum_value = 0
                helper_wire == gen(group, IF is_zero THEN 0
                                          ELSE ModInverse(sum_value, group), FALSE)
                result_wire == gen(group, IF is_zero THEN 1 ELSE 0, FALSE)
            IN IF \/ assert_equal(group, <<Wire_mul(result_wire, PyInt(sum_value))>>,
                                  <<gen(group, 0, FALSE)>>)
                  \/ assert_equal(group, <<Wire_mul(PyInt(sum_value), helper_wire)>>,
                                  <<Wire_sub(PyInt(1), result_wire)>>)
               THEN ValueError
               ELSE result_wire

\* eq_multiple(group, wires_one, wires_two)
eq_multiple(group, wires_one, wires_two) ==
    eq_zero_multiple(group,
        wires_one \o PyList([i \in 1..Len(wires_two) |-> Wire_neg(wires_two[i])]))

(***************************************************************************)
(* and_gate (src/gates/bits.py), if_then_else, if_then_set_zero            *)
(* (src/gates/branching.py), divisions (src/gates/arithmetic.py)           *)
(***************************************************************************)
\* and_gate(group, wires): the product for two inputs, else eq_multiple
and_gate(group, wires) ==
    IF Len(wires) = 2 THEN Wire_mul(wires[1], wires[2])
    ELSE eq_multiple(group, wires, <<gen(group, Len(wires), TRUE)>>)

\* if_then_else(condition_wire, if_wire, else_wire)
if_then_else(condition_wire, if_wire, else_wire) ==
    Wire_add(Wire_mul(condition_wire, if_wire),
             Wire_mul(Wire_sub(PyInt(1), condition_wire), else_wire))

\* if_then_set_zero(condition_wire, input_wire)
if_then_set_zero(condition_wire, input_wire) ==
    Wire_mul(Wire_sub(PyInt(1), condition_wire), input_wire)

\* division(dividend, divisor): the unsafe quotient
division(dividend, divisor) ==
    IF IsErr(dividend) THEN dividend
    ELSE IF IsErr(divisor) THEN divisor
    ELSE IF divisor.value = 0 THEN ValueError
    ELSE Wire_mul(dividend, invert(divisor))

\* the divisor division_safe and division_safe_multiple divide by
divisor_safe(group, divisor) ==
    if_then_else(eq_zero(group, divisor), PyInt(1), divisor)

\* division_safe that hands the divisor to division as it is
division_safe_Unguarded(group, dividend, divisor) == division(dividend, divisor)

\* division_safe(group, dividend, divisor)
division_safe(group, dividend, divisor) ==
    division(dividend, divisor_safe(group, divisor))

\* division_safe_multiple(group, dividends, divisor)
division_safe_multiple(group, dividends, divisor) ==
    PyList([i \in 1..Len(dividends) |->
               division(dividends[i], divisor_safe(group, divisor))])

(***************************************************************************)
(* Montgomery curve gates (src/gates/ecsmontgomery.py).  A point is the    *)
(* record of its coordinates x, y, z; y is PyNone where the code passes    *)
(* None.                                                                   *)
(***************************************************************************)
PyNone == Raise("NoneType")

\* Point(x, y, z), AffinePoint(x, y, z), HomogeneousPoint(x, y, z)
Point(x, y, z) == [x |-> x, y |-> y, z |-> z]

\* xadd(p, q, m)
xadd(p, q, m) ==
    Bind(Wire_add(p.x, p.z), LAMBDA v0a :
    Bind(Wire_sub(q.x, q.z), LAMBDA v1a :
    Bind(Wire_mul(v1a, v0a), LAMBDA v1 :
    Bind(Wire_sub(p.x, p.z), LAMBDA v0 :
    Bind(Wire_add(q.x, q.z), LAMBDA v2a :
    Bind(Wire_mul(v2a, v0), LAMBDA v2 :
    Bind(Wire_add(v1, v2), LAMBDA v3a :
    Bind(Wire_mul(v3a, v3a), LAMBDA v3 :
    Bind(Wire_sub(v1, v2), LAMBDA v4a :
    Bind(Wire_mul(v4a, v4a), LAMBDA v4 :
       Point(Wire_mul(m.z, v3), PyNone, Wire_mul(m.x, v4))))))))))))

\* xdbl(p, A)
xdbl(p, A) ==
    Bind(Wire_add(p.x, p.z), LAMBDA v1a :
    Bind(Wire_mul(v1a, v1a), LAMBDA v1b :
    Bind(Wire_sub(p.x, p.z), LAMBDA v2a :
    Bind(Wire_mul(v2a, v2a), LAMBDA v2 :
    Bind(Wire_mul(v1b, v2), LAMBDA xd :
    Bind(Wire_sub(v1b, v2), LAMBDA v1 :
    Bind(Wire_mul(Wire_div(Wire_add(A, PyInt(2)), PyInt(4)), v1), LAMBDA v3a :
    Bind(Wire_add(v3a, v2), LAMBDA v3 :
       Point(xd, PyNone, Wire_mul(v1, v3))))))))))

\* one turn of the loop of ladder, for the bit i: the new (r0, r1)
ladder_step(i, r0, r1, p, A) ==
    Bind(xadd(r1, r0, p), LAMBDA padd :
    Bind(xdbl(r0, A), LAMBDA r0_0 :
    Bind(xdbl(r1, A), LAMBDA r1_1 :
    Bind(Wire_mul(i, padd.x), LAMBDA ipaddx :
    Bind(Wire_mul(i, padd.z), LAMBDA ipaddz :
    Bind(Wire_sub(PyInt(1), i), LAMBDA one_minus_i :
       << [r0 EXCEPT !.x = Wire_add(ipaddx, Wire_mul(one_minus_i, r0_0.x)),
                     !.z = Wire_add(ipaddz, Wire_mul(one_minus_i, r0_0.z))],
          [r1 EXCEPT !.x = Wire_sub(Wire_add(Wire_mul(i, r1_1.x), padd.x), ipaddx),
                     !.z = Wire_sub(Wire_add(Wire_mul(i, r1_1.z), padd.z), ipaddz)] >>))))))

RECURSIVE ladder_loop(_, _, _, _, _)
\* "for i in k_bits[1:]" run over the bits that are left
ladder_loop(bits, r0, r1, p, A) ==
    IF Len(bits) = 0 THEN <<r0, r1>>
    ELSE Bind(ladder_step(Head(bits), r0, r1, p, A), LAMBDA r :
            ladder_loop(Tail(bits), r[1], r[2], p, A))

\* ladder(k_bits, p, A): the pair (r0, r1)
ladder(k_bits, p, A) ==
    ladder_loop(Tail(k_bits), Point(p.x, PyNone, p.z), xdbl(p, A), p, A)

\* okeya_sakurai_y_recovery(A, B, p, q, pq)
okeya_sakurai_y_recovery(A, B, p, q, pq) ==
    Bind(Wire_mul(p.x, q.z), LAMBDA v1a :
    Bind(Wire_add(q.x, v1a), LAMBDA v2a :
    Bind(Wire_sub(q.x, v1a), LAMBDA v3a :
    Bind(Wire_mul(v3a, v3a), LAMBDA v3b :
    Bind(Wire_mul(v3b, pq.x), LAMBDA v3 :
    Bind(Wire_mul(Wire_mul(PyInt(2), A), q.z), LAMBDA v1b :
    Bind(Wire_add(v2a, v1b), LAMBDA v2b :
    Bind(Wire_mul(p.x, q.x), LAMBDA v4a :
    Bind(Wire_add(v4a, q.z), LAMBDA v4 :
    Bind(Wire_mul(v2b, v4), LAMBDA v2c :
    Bind(Wire_mul(v1b, q.z), LAMBDA v1c :
    Bind(Wire_sub(v2c, v1c), LAMBDA v2d :
    Bind(Wire_mul(v2d, pq.z), LAMBDA v2 :
    Bind(Wire_sub(v2, v3), LAMBDA y :
    Bind(Wire_mul(Wire_mul(PyInt(2), B), p.y), LAMBDA v1d :
    Bind(Wire_mul(v1d, q.z), LAMBDA v1e :
    Bind(Wire_mul(v1e, pq.z), LAMBDA v1 :
       Point(Wire_mul(v1, q.x), y, Wire_mul(v1, q.z)))))))))))))))))))

\* y_recovery(g, A, B, p, q, pq)
y_recovery(g, A, B, p, q, pq) ==
    Bind(okeya_sakurai_y_recovery(A, B, p, q, pq), LAMBDA rec :
    Bind(eq_zero(g, q.z), LAMBDA cond_wire :
    Bind(if_then_set_zero(cond_wire, rec.x), LAMBDA x1 :
    Bind(if_then_else(cond_wire, PyInt(1), rec.y), LAMBDA y1 :
    Bind(if_then_set_zero(cond_wire, rec.z), LAMBDA z1 :
    Bind(and_gate(g, <<eq_zero(g, pq.z), eq(g, p.x, division_safe(g, q.x, q.z))>>),
         LAMBDA cond_minus_p :
       Point(if_then_else(cond_minus_p, p.x, x1),
             if_then_else(cond_minus_p, Wire_neg(p.y), y1),
             if_then_else(cond_minus_p, PyInt(1), z1))))))))

\* the conversion returning the unscaled x and y its lines 446-447 compute
\* and drop, in place of the quotients (a variant C4 must tell from the code)
convert_homogeneous_to_affine_coordinates_Unscaled(group, p) ==
    Bind(eq_zero(group, p.z), LAMBDA indicator_infty :
       Point(if_then_set_zero(indicator_infty, p.x),
             if_then_else(indicator_infty, PyInt(1), p.y),
             Wire_sub(PyInt(1), indicator_infty)))

\* convert_homogeneous_to_affine_coordinates(group, p)
convert_homogeneous_to_affine_coordinates(group, p) ==
    Bind(division_safe_multiple(group, <<p.x, p.y>>, p.z), LAMBDA quotients :
    Bind(eq_zero(group, p.z), LAMBDA indicator_infty :
       Point(quotients[1], quotients[2], Wire_sub(PyInt(1), indicator_infty))))

\* add_affine_points(group, A, B, p, q)
add_affine_points(group, A, B, p, q) ==
    Bind(Wire_add(Wire_add(Wire_mul(Wire_mul(PyInt(3), p.x), p.x),
                           Wire_mul(Wire_mul(PyInt(2), A), p.x)),
                  PyInt(1)),
         LAMBDA lambda_case_p_eq_q_numerator :
    Bind(Wire_mul(Wire_mul(PyInt(2), B), p.y),
         LAMBDA lambda_case_p_eq_q_denomiantor :
    Bind(division_safe(group, lambda_case_p_eq_q_numerator,
                       lambda_case_p_eq_q_denomiantor),
         LAMBDA lambda_case_p_eq_q :
    Bind(division_safe(group, Wire_sub(q.y, p.y), Wire_sub(q.x, p.x)),
         LAMBDA lambda_case_other :
    Bind(eq(group, p.x, q.x), LAMBDA indicator_x_eq :
    Bind(if_then_else(indicator_x_eq, lambda_case_p_eq_q, lambda_case_other),
         LAMBDA lambda_wire :
    Bind(Wire_sub(Wire_sub(Wire_mul(Wire_mul(B, lambda_wire), lambda_wire),
                           Wire_add(p.x, q.x)),
                  A),
         LAMBDA x :
    Bind(and_gate(group, <<indicator_x_eq, eq(group, Wire_neg(p.y), q.y)>>),
         LAMBDA indicator_p_eq_minus_q :
    Bind(Wire_sub(Wire_mul(lambda_wire, Wire_sub(p.x, x)), p.y), LAMBDA y :
    Bind(eq_zero(group, p.x), LAMBDA indicator_zero :
    Bind(and_gate(group, <<indicator_x_eq, indicator_zero>>),
         LAMBDA indicator_zero_plus_zero :
    Bind(if_then_else(indicator_p_eq_minus_q, PyInt(1), indicator_zero_plus_zero),
         LAMBDA indicator_point_infty :
       Point(if_then_set_zero(indicator_point_infty, x),
             if_then_else(indicator_point_infty, PyInt(1), y),
             Wire_sub(PyInt(1), indicator_point_infty))))))))))))))

\* add_homogeneous_points(group, A, B, p, q)
add_homogeneous_points(group, A, B, p, q) ==
    Bind(convert_homogeneous_to_affine_coordinates(group, p), LAMBDA p_affine :
    Bind(convert_homogeneous_to_affine_coordinates(group, q), LAMBDA q_affine :
    Bind(add_affine_points(group, A, B, p_affine, q_affine), LAMBDA pq :
    Bind(eq_zero(group, p.z), LAMBDA indicator_first_param_infty :
    Bind(if_then_else(indicator_first_param_infty, q.x, pq.x), LAMBDA x1 :
    Bind(if_then_else(indicator_first_param_infty, q.y, pq.y), LAMBDA y1 :
    Bind(if_then_else(indicator_first_param_infty, q.z, pq.z), LAMBDA z1 :
    Bind(eq_zero(group, q.z), LAMBDA indicator_second_param_infty :
       Point(if_then_else(indicator_second_param_infty, p.x, x1),
             if_then_else(indicator_second_param_infty, p.y, y1),
             if_then_else(indicator_second_param_infty, p.z, z1))))))))))

\* exponent_homogeneous_point_bit_exponent without the "check if zero
\* point" block: the result of the ladder and of y_recovery is returned for
\* the point (0, 0, z) too
exponent_homogeneous_point_bit_exponent_NoZeroPoint(g, A, B, p, exponent_bits) ==
    Bind(ladder(exponent_bits, p, A), LAMBDA pe01 :
    Bind(pe01[1], LAMBDA pe0 :
    Bind(pe01[2], LAMBDA pe1 :
    Bind(y_recovery(g, A, B, p, pe0, pe1), LAMBDA pe :
    Bind(eq_zero(g, pe0.z), LAMBDA indicator_infty :
       Point(if_then_set_zero(indicator_infty, pe.x),
             if_then_else(indicator_infty, PyInt(1), pe.y),
             if_then_set_zero(indicator_infty, pe.z)))))))

\* exponent_homogeneous_point_bit_exponent(g, A, B, p, exponent_bits)
exponent_homogeneous_point_bit_exponent(g, A, B, p, exponent_bits) ==
    Bind(ladder(exponent_bits, p, A), LAMBDA pe01 :
    Bind(pe01[1], LAMBDA pe0 :
    Bind(pe01[2], LAMBDA pe1 :
    Bind(y_recovery(g, A, B, p, pe0, pe1), LAMBDA pe :
    Bind(eq_zero(g, pe0.z), LAMBDA indicator_infty :
    Bind(if_then_set_zero(indicator_infty, pe.x), LAMBDA x1 :
    Bind(if_then_else(indicator_infty, PyInt(1), pe.y), LAMBDA y1 :
    Bind(if_then_set_zero(indicator_infty, pe.z), LAMBDA z1 :
    Bind(and_gate(g, <<eq_zero(g, p.x), eq_zero(g, p.y),
                       Wire_sub(PyInt(1), eq_zero(g, p.z))>>),
         LAMBDA indicator_zero :
    Bind(eq_zero(g, Wire_sub(exponent_bits[Len(exponent_bits)], PyInt(1))),
         LAMBDA indicator_odd :
    Bind(Wire_mul(indicator_zero, indicator_odd), LAMBDA indicator_zero_odd :
    Bind(Wire_mul(indicator_zero, Wire_sub(PyInt(1), indicator_odd)),
         LAMBDA indicator_zero_even :
    Bind(if_then_else(indicator_zero_odd, PyInt(0), x1), LAMBDA x2 :
    Bind(if_then_else(indicator_zero_odd, PyInt(0), y1), LAMBDA y2 :
    Bind(if_then_else(indicator_zero_odd, PyInt(1), z1), LAMBDA z2 :
       Point(if_then_else(indicator_zero_even, PyInt(0), x2),
             if_then_else(indicator_zero_even, PyInt(1), y2),
             if_then_else(indicator_zero_even, PyInt(0), z2)))))))))))))))))

\* exponent_homogeneous_point(g, A, B, p, exponent)
exponent_homogeneous_point(g, A, B, p, exponent) ==
    IF split_raises(g, exponent, bit_length(g))
    THEN Point(ValueError, ValueError, ValueError)
    ELSE exponent_homogeneous_point_bit_exponent(g, A, B, p,
                                                 split(g, exponent, bit_length(g)))

(***************************************************************************)
(* List gates (src/gates/listgates.py)                                     *)
(***************************************************************************)
\* min(int(w) for w in wires)
MinValue(wires) ==
    CHOOSE m \in {wires[i].value : i \in 1..Len(wires)} :
        \A i \in 1..Len(wires) : m <= wires[i].value

\* minimum(group, wires, bits): the list of indicators
minimum(group, wires, bits) ==
    LET min_wire == gen(group, MinValue(wires), FALSE)
    IN PyList([i \in 1..Len(wires) |-> eq(group, wires[i], min_wire)])

\* TRUE when minimum raises: one of its eq or assert_gt calls does
minimum_raises(group, wires, bits) ==
    LET min_wire == gen(group, MinValue(wires), FALSE)
    IN \E i \in 1..Len(wires) :
          \/ IsErr(eq(group, wires[i], min_wire))
          \/ assert_gt(group, wires[i], min_wire, bits)

RECURSIVE find_first_indicator_loop(_, _, _)
\* the loop of find_first_indicator over the wires that are left
find_first_indicator_loop(wires, done, res) ==
    IF Len(wires) = 0 THEN res
    ELSE Bind(Wire_mul(Head(wires), Wire_sub(PyInt(1), done)), LAMBDA r :
            find_first_indicator_loop(Tail(wires), Wire_add(done, r), Append(res, r)))

\* find_first_indicator keeping every set indicator (a variant C2 must tell
\* from the code)
find_first_indicator_KeepsTies(group, wires) == wires

\* find_first_indicator(group, wires)
find_first_indicator(group, wires) ==
    find_first_indicator_loop(wires, gen(group, 0, FALSE), <<>>)

\* zip(a, b) stops at the shorter list
ZipLen(a, b) == IF Len(a) < Len(b) THEN Len(a) ELSE Len(b)

RECURSIVE find_and_count_loop(_, _, _, _, _, _, _, _)
\* the loop of find_and_count_min_of_set_inds from the i-th pair of
\* zip(wires, inds) on: the pair (ind_wires, sum_eq)
find_and_count_loop(group, wires, inds, bits, min_wire, i, ind_wires, sum_eq) ==
    IF i > ZipLen(wires, inds) THEN <<ind_wires, sum_eq>>
    ELSE Bind(eq(group, wires[i], min_wire), LAMBDA comp_eq :
         Bind(Wire_sub(PyInt(1), inds[i]), LAMBDA not_ind :
         Bind(gt(group, min_wire, wires[i], bits), LAMBDA comp_gt :
         Bind(and_gate(group, <<comp_eq, comp_gt>>), LAMBDA comp :
         Bind(if_then_set_zero(not_ind, comp), LAMBDA ind_val :
            find_and_count_loop(group, wires, inds, bits, min_wire, i + 1,
                                Append(ind_wires, ind_val),
                                Wire_add(sum_eq, if_then_set_zero(not_ind, comp_eq))))))))

\* find_and_count_min_of_set_inds(group, wires, inds, bits): the pair
\* (ind_wires, sum_eq); min() of no value raises ValueError
find_and_count_min_of_set_inds(group, wires, inds, bits) ==
    Bind(ZipLen(wires, inds), LAMBDA n :
    Bind({i \in 1..n : inds[i].value = 1}, LAMBDA set :
       IF set = {} THEN <<PyList([i \in 1..n |-> ValueError]), ValueError>>
       ELSE Bind((CHOOSE m \in {wires[i].value : i \in set} :
                      \A i \in set : m <= wires[i].value),
                 LAMBDA min_val :
               find_and_count_loop(group, wires, inds, bits,
                                   gen(group, min_val, FALSE), 1, <<>>,
                                   gen(group, 0, FALSE)))))

(***************************************************************************)
(* IRVBallotManager (src/gates/voting/irv.py).  An ordering is the         *)
(* sequence of its choices; mapping is a function from the orderings that  *)
(* are keys to their count wires.                                          *)
(***************************************************************************)
InOrdering(c, ordering) == \E i \in 1..Len(ordering) : ordering[i] = c

RECURSIVE Extensions(_, _, _)
\* ordering followed by each choice c, c+1, ..., n-1 it does not hold
Extensions(ordering, c, n) ==
    IF c >= n THEN <<>>
    ELSE (IF InOrdering(c, ordering) THEN <<>> ELSE <<Append(ordering, c)>>)
         \o Extensions(ordering, c + 1, n)

RECURSIVE ExtendAll(_, _)
ExtendAll(orderings, n) ==
    IF Len(orderings) = 0 THEN <<>>
    ELSE Extensions(Head(orderings), 0, n) \o ExtendAll(Tail(orderings), n)

RECURSIVE permutations(_, _)
\* list(itertools.permutations(range(n), i))
permutations(n, i) ==
    IF i = 0 THEN << <<>> >> ELSE ExtendAll(permutations(n, i - 1), n)

RECURSIVE KeysFrom(_, _)
\* the keys of lengths i, i-1, ..., 1 in the order init_mapping inserts them
KeysFrom(n, i) ==
    IF i = 0 THEN <<>> ELSE permutations(n, i) \o KeysFrom(n, i - 1)

\* list(mapping.keys()): longest orderings first, the empty ordering last
mapping_keys(n_choices) == KeysFrom(n_choices, n_choices + 1) \o << <<>> >>

SeqRange(seq) == {seq[i] : i \in 1..Len(seq)}

\* IRVBallotManager.init_mapping
init_mapping(n_choices, group) ==
    [key \in SeqRange(mapping_keys(n_choices)) |-> gen(group, 0, FALSE)]

\* IRVBallotManager.add_votes_for_ordering: the new mapping
add_votes_for_ordering(mapping, ordering, n_votes) ==
    [mapping EXCEPT ![ordering] = Wire_add(@, n_votes)]

RECURSIVE PyStr(_)
\* str(v) of an integer, as the list of its characters
PyStr(v) ==
    IF v < 0 THEN <<"-">> \o PyStr(0 - v)
    ELSE IF v < 10 THEN <<SubSeq(<<"0", "1", "2", "3", "4", "5", "6", "7", "8", "9">>,
                                 v + 1, v + 1)[1]>>
    ELSE PyStr(v \div 10) \o PyStr(v % 10)

RECURSIVE map_ballot_to_str(_)
\* IRVBallotManager._map_ballot_to_str: '-'.join(str(v) for v in ballot)
map_ballot_to_str(ballot) ==
    IF Len(ballot) = 0 THEN <<>>
    ELSE IF Len(ballot) = 1 THEN PyStr(ballot[1])
    ELSE PyStr(ballot[1]) \o <<"-">> \o map_ballot_to_str(Tail(ballot))

\* the strings that are keys of the mapping
mapping_key_strs(mapping) == {map_ballot_to_str(key) : key \in DOMAIN mapping}

\* add_votes_for_ordering raising ValueError on an ordering that is no key
add_votes_for_ordering_raises_ValueError(mapping, ordering) ==
    IF map_ballot_to_str(ordering) \in mapping_key_strs(mapping)
    THEN PyNone ELSE ValueError

\* what self.mapping[ordering_str] += n_votes raises: KeyError when
\* ordering_str is no key of the dict, else nothing (PyNone)
add_votes_for_ordering_raises(mapping, ordering) ==
    IF map_ballot_to_str(ordering) \in mapping_key_strs(mapping)
    THEN PyNone ELSE Raise("KeyError")

\* the key of the mapping whose string is that of ordering
key_of_ordering(mapping, ordering) ==
    CHOOSE key \in DOMAIN mapping : map_ballot_to_str(key) = map_ballot_to_str(ordering)

RECURSIVE n_ballots_loop(_, _, _, _)
\* the loop of get_n_ballots_with_first_choice over the keys that are left
n_ballots_loop(mapping, keys, first_choice, n_ballots) ==
    IF Len(keys) = 0 THEN n_ballots
    ELSE LET key == Head(keys)
         IN IF Len(key) = 0 \/ key[1] # first_choice
            THEN n_ballots_loop(mapping, Tail(keys), first_choice, n_ballots)
            ELSE n_ballots_loop(mapping, Tail(keys), first_choice,
                                IF n_ballots = PyNone THEN mapping[key]
                                ELSE Wire_add(n_ballots, mapping[key]))

\* IRVBallotManager.get_n_ballots_with_first_choice
get_n_ballots_with_first_choice(mapping, n_choices, first_choice) ==
    n_ballots_loop(mapping, mapping_keys(n_choices), first_choice, PyNone)

\* IRVBallotManager.get_votes_per_choice
get_votes_per_choice(mapping, n_choices) ==
    PyList([c \in 1..n_choices |->
               get_n_ballots_with_first_choice(mapping, n_choices, c - 1)])

RECURSIVE update_key(_, _, _, _, _)
\* the inner loop of update_votes_on_elimination for one key, from pos_choice on
update_key(mapping, n_choices, inds_elim, ballot_list, pos_choice) ==
    IF pos_choice >= n_choices THEN mapping
    ELSE LET previous_ballot == <<pos_choice>> \o ballot_list
         IN IF \/ InOrdering(pos_choice, ballot_list)
               \/ previous_ballot \notin DOMAIN mapping
            THEN update_key(mapping, n_choices, inds_elim, ballot_list, pos_choice + 1)
            ELSE update_key(
                   [mapping EXCEPT ![ballot_list] =
                       Wire_add(@, Wire_mul(inds_elim[pos_choice + 1],
                                            mapping[previous_ballot]))],
                   n_choices, inds_elim, ballot_list, pos_choice + 1)

RECURSIVE update_keys(_, _, _, _)
\* the outer loop of update_votes_on_elimination over the keys that are left
update_keys(mapping, n_choices, inds_elim, keys) ==
    IF Len(keys) = 0 THEN mapping
    ELSE update_keys(update_key(mapping, n_choices, inds_elim, Head(keys), 0),
                     n_choices, inds_elim, Tail(keys))

\* IRVBallotManager.update_votes_on_elimination: the new mapping
update_votes_on_elimination(mapping, n_choices, inds_elim) ==
    update_keys(mapping, n_choices, inds_elim, mapping_keys(n_choices))

(***************************************************************************)
(* ChoiceEliminator, EliminateFirstPossibilityEliminator, NSWEliminator    *)
(* (src/gates/voting/irv.py).  An eliminator is the record of its fields   *)
(* kind, group, bits, randomness_per_round, votes_per_round and            *)
(* current_round.                                                          *)
(***************************************************************************)
\* compute_min taking the minimum of the votes as they are, eliminated
\* choices included
compute_min_votes_Unmasked(ind_elim, votes_per_choice) == votes_per_choice

\* the masked votes compute_min takes the minimum of
compute_min_votes(ind_elim, votes_per_choice) ==
    PyList([i \in 1..ZipLen(votes_per_choice, ind_elim) |->
               Wire_sub(Wire_mul(votes_per_choice[i], Wire_sub(PyInt(1), ind_elim[i])),
                        ind_elim[i])])

\* ChoiceEliminator.compute_min
compute_min(self, ind_elim, votes_per_choice) ==
    minimum(self.group, compute_min_votes(ind_elim, votes_per_choice), self.bits)

\* TRUE when compute_min raises
compute_min_raises(self, ind_elim, votes_per_choice) ==
    minimum_raises(self.group, compute_min_votes(ind_elim, votes_per_choice), self.bits)

\* EliminateFirstPossibilityEliminator.break_ties
first_break_ties(self, ind_min, votes_per_choice) ==
    find_first_indicator(self.group, ind_min)

RECURSIVE Reverse(_)
Reverse(seq) == IF Len(seq) = 0 THEN <<>> ELSE Append(Reverse(Tail(seq)), Head(seq))

RECURSIVE nsw_loop(_, _, _, _, _)
\* the loop of NSWEliminator.break_ties over the vote lists that are left:
\* the pair (done, res)
nsw_loop(self, ind_min, lists, done, res) ==
    IF Len(lists) = 0 THEN <<done, res>>
    ELSE Bind(find_and_count_min_of_set_inds(self.group, Head(lists), ind_min,
                                             self.bits),
              LAMBDA found :
         Bind(found[1], LAMBDA min_ind :
         Bind(found[2], LAMBDA n_mins :
         Bind(eq_zero(self.group, Wire_sub(n_mins, PyInt(1))), LAMBDA ind_one_min :
         Bind(and_gate(self.group, <<ind_one_min, Wire_sub(PyInt(1), done)>>),
              LAMBDA ind_set_res :
            nsw_loop(self, ind_min, Tail(lists), ind_set_res,
                     PyList([i \in 1..ZipLen(min_ind, res) |->
                                if_then_else(ind_set_res, min_ind[i], res[i])])))))))

\* NSWEliminator.break_ties: the list it returns
nsw_break_ties(self, ind_min, votes_per_choice) ==
    nsw_loop(self, ind_min,
             Reverse(self.votes_per_round)
                 \o <<self.randomness_per_round[self.current_round + 1]>>,
             gen(self.group, 0, FALSE),
             PyList([i \in 1..Len(ind_min) |-> gen(self.group, 0, FALSE)]))[2]

\* break_ties of the eliminator's class
break_ties(self, ind_min, votes_per_choice) ==
    IF self.kind = "NSWEliminator"
    THEN nsw_break_ties(self, ind_min, votes_per_choice)
    ELSE first_break_ties(self, ind_min, votes_per_choice)

\* ChoiceEliminator.eliminate_choice: the indicator list
eliminate_choice(self, round, ind_elim, votes_per_choice) ==
    break_ties(self, compute_min(self, ind_elim, votes_per_choice), votes_per_choice)

\* TRUE when the eliminate_choice call that returned ind raised: compute_min
\* did, or a gate of break_ties did
eliminate_choice_raises(self, ind_elim, votes_per_choice, ind) ==
    \/ compute_min_raises(self, ind_elim, votes_per_choice)
    \/ \E i \in 1..Len(ind) : IsErr(ind[i])

\* the eliminator after eliminate_choice: NSWEliminator.break_ties appends
\* votes_per_choice to votes_per_round and leaves current_round alone
eliminator_after(self, votes_per_choice) ==
    IF self.kind = "NSWEliminator"
    THEN [self EXCEPT !.votes_per_round = Append(@, votes_per_choice)]
    ELSE self

(***************************************************************************)
(* verify_bit, or_gate, xor_gate_two_inputs (src/gates/bits.py),           *)
(* is_value_in_list, get_n_occurences (src/gates/listgates.py)             *)
(***************************************************************************)
\* verify_bit(group, wire)
verify_bit(group, wire) ==
    eq_zero(group, Wire_mul(wire, Wire_sub(PyInt(1), wire)))

\* or_gate(group, wires): a + b - a * b for two inputs, else
\* 1 - eq_zero_multiple(wires)
or_gate(group, wires) ==
    IF Len(wires) = 2
    THEN Wire_sub(Wire_add(wires[1], wires[2]), Wire_mul(wires[1], wires[2]))
    ELSE Wire_sub(PyInt(1), eq_zero_multiple(group, wires))

\* xor_gate_two_inputs with the and term left out: the or of the two wires
xor_gate_two_inputs_Or(group, wire_one, wire_two) ==
    or_gate(group, <<wire_one, wire_two>>)

\* xor_gate_two_inputs(group, wire_one, wire_two)
xor_gate_two_inputs(group, wire_one, wire_two) ==
    Bind(or_gate(group, <<wire_one, wire_two>>), LAMBDA or_val :
    Bind(and_gate(group, <<wire_one, wire_two>>), LAMBDA and_val :
       and_gate(group, <<or_val, Wire_sub(PyInt(1), and_val)>>)))

\* is_value_in_list(group, value, value_list)
is_value_in_list(group, value, value_list) ==
    or_gate(group, PyList([i \in 1..Len(value_list) |->
                              eq(group, value, value_list[i])]))

\* get_n_occurences(group, wires, wire)
get_n_occurences(group, wires, wire) ==
    PySumFrom(gen(group, 0, FALSE),
              PyList([i \in 1..Len(wires) |-> eq(group, wires[i], wire)]))

(***************************************************************************)
(* Ballot gates (src/gates/voting/ballots.py).  An assert_* gate is TRUE   *)
(* when it raises ValueError; a verify_* gate is its indicator wire.       *)
(***************************************************************************)
\* the list of verify_bit indicators both multiple-entry verify gates start with
verify_bits(group, ballot) ==
    PyList([i \in 1..Len(ballot) |-> verify_bit(group, ballot[i])])

\* assert_single_choice(group, ballot)
assert_single_choice(group, ballot) ==
    \/ \E i \in 1..Len(ballot) : assert_bit(ballot[i])
    \/ assert_equal(group, ballot, <<gen(group, 1, FALSE)>>)

\* verify_single_choice(group, ballot)
verify_single_choice(group, ballot) ==
    and_gate(group, verify_bits(group, ballot)
                        \o <<eq(group, PySum(ballot), gen(group, 1, FALSE))>>)

\* assert_multiple_choice(group, ballot, max_choices, bits)
assert_multiple_choice(group, ballot, max_choices, bits) ==
    \/ \E i \in 1..Len(ballot) : assert_bit(ballot[i])
    \/ /\ max_choices # PyNone
       /\ assert_gt(group, max_choices, PySum(ballot), bits)

\* verify_multiple_choice(group, ballot, max_choices, bits)
verify_multiple_choice(group, ballot, max_choices, bits) ==
    and_gate(group, verify_bits(group, ballot)
                        \o (IF max_choices # PyNone
                            THEN <<gt(group, max_choices, PySum(ballot), bits)>>
                            ELSE <<>>))

RECURSIVE borda_loop(_, _, _, _, _)
\* the loop both Borda gates run over the points that are left: the list of
\* the xor_val wires, one for every point
borda_loop(group, ballot, points, fuel, xor_vals) ==
    IF Len(points) = 0 THEN xor_vals
    ELSE Bind(get_n_occurences(group, ballot, Head(points)), LAMBDA n_occ :
         Bind(eq_zero(group, fuel), LAMBDA ind_fuel_zero :
         Bind(eq_zero(group, n_occ), LAMBDA ind_n_occ_zero :
         Bind(xor_gate_two_inputs(group, ind_fuel_zero, ind_n_occ_zero), LAMBDA xor_val :
         Bind(if_then_else(ind_fuel_zero, fuel, Wire_sub(fuel, PyInt(1))), LAMBDA fuel_1 :
         Bind(if_then_else(ind_n_occ_zero, fuel_1,
                           Wire_sub(Wire_add(fuel_1, n_occ), PyInt(1))),
              LAMBDA fuel_2 :
            borda_loop(group, ballot, Tail(points), fuel_2,
                       Append(xor_vals, xor_val))))))))

\* assert_borda_ballot(group, ballot, ordered_points): it raises at the
\* first point whose xor_val is not 1
assert_borda_ballot(group, ballot, ordered_points) ==
    Bind(borda_loop(group, ballot, ordered_points, gen(group, 0, FALSE), <<>>),
         LAMBDA xor_vals :
       \E i \in 1..Len(xor_vals) :
           assert_equal(group, <<xor_vals[i]>>, <<gen(group, 1, FALSE)>>))

\* verify_borda_ballot(group, ballot, ordered_points)
verify_borda_ballot(group, ballot, ordered_points) ==
    Bind(borda_loop(group, ballot, ordered_points, gen(group, 0, FALSE), <<>>),
         LAMBDA xor_vals :
       and_gate(group, PyList([i \in 1..Len(xor_vals) |->
                                  eq(group, xor_vals[i], gen(group, 1, FALSE))])))

\* assert_majorityjudgement_ballot(group, ballot, grades)
assert_majorityjudgement_ballot(group, ballot, grades) ==
    \E i \in 1..Len(ballot) :
        assert_equal(group, <<is_value_in_list(group, ballot[i], grades)>>,
                     <<gen(group, 1, FALSE)>>)

\* verify_majorityjudgement_ballot(group, ballot, grades)
verify_majorityjudgement_ballot(group, ballot, grades) ==
    and_gate(group, PyList([i \in 1..Len(ballot) |->
                               is_value_in_list(group, ballot[i], grades)]))

\* list(itertools.product(range(n), range(n), range(n))), in its order
product3(n) ==
    PyList([t \in 1..(n * n * n) |->
               <<(t - 1) \div (n * n), ((t - 1) \div n) % n, (t - 1) % n>>])

RECURSIVE condorcet_loop(_, _, _)
\* the loop of both Condorcet gates over the triples that are left, with its
\* set comb_i_j_done: the list of the triples (i, j, k) its body runs for
condorcet_loop(triples, comb_i_j_done, run) ==
    IF Len(triples) = 0 THEN run
    ELSE Bind(Head(triples)[1], LAMBDA i :
         Bind(Head(triples)[2], LAMBDA j :
         Bind(Head(triples)[3], LAMBDA k :
            IF i = j \/ i = k \/ j = k
            THEN condorcet_loop(Tail(triples), comb_i_j_done, run)
            ELSE IF <<i, j>> \in comb_i_j_done
            THEN condorcet_loop(Tail(triples), comb_i_j_done, run)
            ELSE IF <<j, i>> \in comb_i_j_done
            THEN condorcet_loop(Tail(triples), comb_i_j_done, run)
            ELSE condorcet_loop(Tail(triples),
                                comb_i_j_done \cup {<<i, j>>, <<j, i>>},
                                Append(run, <<i, j, k>>)))))

\* the triples (i, j, k) the loop body of both Condorcet gates runs for
condorcet_triples(ballot) ==
    condorcet_loop(product3(Len(ballot)), {}, <<>>)

\* ind_false of one loop turn: and_gate([value_i_j, value_j_k, 1 - value_i_k])
condorcet_ind_false(group, ballot, t) ==
    and_gate(group, <<ballot[t[1] + 1][t[2] + 1], ballot[t[2] + 1][t[3] + 1],
                      Wire_sub(PyInt(1), ballot[t[1] + 1][t[3] + 1])>>)

\* assert_condorcet_ballot(group, ballot)
assert_condorcet_ballot(group, ballot) ==
    \/ \E i \in 1..Len(ballot) : \E j \in 1..Len(ballot[i]) :
          i # j /\ assert_bit(ballot[i][j])
    \/ Bind(condorcet_triples(ballot), LAMBDA run :
          \E m \in 1..Len(run) :
              \/ assert_equal(group, <<ballot[run[m][1] + 1][run[m][2] + 1],
                                       ballot[run[m][2] + 1][run[m][1] + 1]>>,
                              <<gen(group, 1, FALSE)>>)
              \/ assert_equal(group, <<condorcet_ind_false(group, ballot, run[m])>>,
                              <<gen(group, 0, FALSE)>>))

RECURSIVE condorcet_bits(_, _, _, _)
\* the first loop of verify_condorcet_ballot from the entry (i, j) on: the
\* verify_bit indicators of the off-diagonal entries, row by row
condorcet_bits(group, ballot, i, j) ==
    IF i > Len(ballot) THEN <<>>
    ELSE IF j > Len(ballot[i]) THEN condorcet_bits(group, ballot, i + 1, 1)
    ELSE (IF i = j THEN <<>> ELSE <<verify_bit(group, ballot[i][j])>>)
         \o condorcet_bits(group, ballot, i, j + 1)

\* the two indicators every loop turn of verify_condorcet_ballot appends
condorcet_inds(group, ballot, run) ==
    PyList([m \in 1..(2 * Len(run)) |->
               IF m % 2 = 1
               THEN eq(group, Wire_add(ballot[run[(m + 1) \div 2][1] + 1]
                                             [run[(m + 1) \div 2][2] + 1],
                                       ballot[run[(m + 1) \div 2][2] + 1]
                                             [run[(m + 1) \div 2][1] + 1]),
                       gen(group, 1, FALSE))
               ELSE eq_zero(group,
                            condorcet_ind_false(group, ballot, run[(m + 1) \div 2]))])

\* verify_condorcet_ballot(group, ballot)
verify_condorcet_ballot(group, ballot) ==
    and_gate(group, condorcet_bits(group, ballot, 1, 1)
                        \o condorcet_inds(group, ballot, condorcet_triples(ballot)))

\* the points of the choice i with the ranks compared as they are, the
\* "- 1" of the strict comparison left out
borda_tournament_point_GreaterEqual(group, ranking, bits, i) ==
    Bind(SubSeq(ranking, 1, i - 1) \o SubSeq(ranking, i + 1, Len(ranking)),
         LAMBDA others :
    Bind(PySum(PyList([j \in 1..Len(others) |->
                          gt(group, ranking[i], others[j], bits)])),
         LAMBDA n_truely_greater :
    Bind(PySum(PyList([j \in 1..Len(others) |-> eq(group, ranking[i], others[j])])),
         LAMBDA n_eq :
       Wire_add(Wire_mul(PyInt(2), n_truely_greater),
                gt(group, n_eq, gen(group, 1, FALSE), bits)))))

\* compute_borda_tournament_style_ballot(group, ranking, bits): the points
\* of the choice i
borda_tournament_point(group, ranking, bits, i) ==
    Bind(SubSeq(ranking, 1, i - 1) \o SubSeq(ranking, i + 1, Len(ranking)),
         LAMBDA others :
    Bind(PySum(PyList([j \in 1..Len(others) |->
                          gt(group, Wire_sub(ranking[i], PyInt(1)), others[j], bits)])),
         LAMBDA n_truely_greater :
    Bind(PySum(PyList([j \in 1..Len(others) |-> eq(group, ranking[i], others[j])])),
         LAMBDA n_eq :
       Wire_add(Wire_mul(PyInt(2), n_truely_greater),
                gt(group, n_eq, gen(group, 1, FALSE), bits)))))

\* compute_borda_tournament_style_ballot(group, ranking, bits)
compute_borda_tournament_style_ballot(group, ranking, bits) ==
    PyList([i \in 1..Len(ranking) |-> borda_tournament_point(group, ranking, bits, i)])

(***************************************************************************)
(* Pedersen commitments (src/gates/pedersengates.py)                       *)
(***************************************************************************)
\* pedersen_commitment_over_montgomery_curve(group, A, B, g, h, m, r); an
\* exception of an exponentiation ends the call
pedersen_commitment_over_montgomery_curve(group, A, B, g, h, m, r) ==
    Bind(exponent_homogeneous_point(group, A, B, g, m), LAMBDA gm :
       IF IsErr(gm.x) \/ IsErr(gm.y) \/ IsErr(gm.z) THEN gm
       ELSE
    Bind(exponent_homogeneous_point(group, A, B, h, r), LAMBDA hr :
       IF IsErr(hr.x) \/ IsErr(hr.y) \/ IsErr(hr.z) THEN hr
       ELSE add_homogeneous_points(group, A, B, gm, hr)))

(***************************************************************************)
(* maximum (src/gates/listgates.py) and smith_set                          *)
(* (src/gates/voting/evaluation.py)                                        *)
(***************************************************************************)
\* max(int(w) for w in wires)
PyMax(wires) ==
    CHOOSE m \in {wires[i].value : i \in 1..Len(wires)} :
        \A i \in 1..Len(wires) : wires[i].value <= m

\* maximum(group, wires, bits) raises: one of its assert_gt calls raises
maximum_raises(group, wires, bits) ==
    Bind(gen(group, PyMax(wires), FALSE), LAMBDA max_val :
       \E i \in 1..Len(wires) : assert_gt(group, max_val, wires[i], bits))

\* maximum(group, wires, bits): one indicator per wire
maximum(group, wires, bits) ==
    Bind(gen(group, PyMax(wires), FALSE), LAMBDA max_val :
       PyList([i \in 1..Len(wires) |-> eq(group, wires[i], max_val)]))

\* compute_most_votes(group, tally, bits)
compute_most_votes(group, tally, bits) == maximum(group, tally, bits)

\* cache_comparisons[choice][other_choice], for other_choice # choice
smith_comparisons(group, tally, bits) ==
    PyList([choice \in 1..Len(tally) |->
        PyList([other_choice \in 1..Len(tally) |->
            IF other_choice = choice THEN PyInt(0)
            ELSE gt(group, tally[choice][other_choice], tally[other_choice][choice],
                    bits)])])

RECURSIVE smith_won_duels(_, _, _)
\* the loop "n_won_duels = if_then_else(ind_won, n_won_duels + 1, n_won_duels)"
\* over the other choices from other_choice on
smith_won_duels(ind_wons, other_choice, n_won_duels) ==
    IF other_choice > Len(ind_wons) THEN n_won_duels
    ELSE IF ind_wons[other_choice].kind = "int"
    THEN smith_won_duels(ind_wons, other_choice + 1, n_won_duels)
    ELSE smith_won_duels(ind_wons, other_choice + 1,
                         if_then_else(ind_wons[other_choice],
                                      Wire_add(n_won_duels, PyInt(1)), n_won_duels))

RECURSIVE smith_loop(_, _, _, _)
\* the three nested loops that widen ind_smith_set: step counts the triples
\* (round, choice, other_choice) in the order of the loops
smith_loop(group, cache_comparisons, ind_smith_set, step) ==
    Bind(Len(cache_comparisons), LAMBDA n :
       IF step >= (n - 1) * n * n THEN ind_smith_set
       ELSE
    Bind(((step % (n * n)) \div n) + 1, LAMBDA choice :
    Bind((step % n) + 1, LAMBDA other_choice :
       IF other_choice = choice
       THEN smith_loop(group, cache_comparisons, ind_smith_set, step + 1)
       ELSE
    Bind(and_gate(group, <<ind_smith_set[other_choice],
                           cache_comparisons[choice][other_choice]>>),
         LAMBDA new_ind_smith_choice :
       smith_loop(group, cache_comparisons,
                  [ind_smith_set EXCEPT
                     ![choice] = if_then_else(new_ind_smith_choice,
                                              gen(group, 1, FALSE),
                                              ind_smith_set[choice])],
                  step + 1)))))

\* the list won_duels
smith_won_duels_list(group, cache_comparisons) ==
    PyList([choice \in 1..Len(cache_comparisons) |->
               smith_won_duels(cache_comparisons[choice], 1, gen(group, 0, FALSE))])

\* smith_set(group, tally, bits) raises: a comparison of two entries raises,
\* or compute_most_votes raises
smith_set_raises(group, tally, bits) ==
    Bind(smith_comparisons(group, tally, bits), LAMBDA cache_comparisons :
       \/ \E i, j \in 1..Len(tally) : IsErr(cache_comparisons[i][j])
       \/ maximum_raises(group, smith_won_duels_list(group, cache_comparisons),
                         Len(tally)))

\* smith_set(group, tally, bits): the list of indicators
smith_set(group, tally, bits) ==
    Bind(smith_comparisons(group, tally, bits), LAMBDA cache_comparisons :
       smith_loop(group, cache_comparisons,
                  compute_most_votes(group,
                                     smith_won_duels_list(group, cache_comparisons),
                                     Len(tally)),
                  0))

(***************************************************************************)
(* r1cs_constraint_single_output (src/gates/arithmetic.py)                 *)
(***************************************************************************)
RECURSIVE r1cs_sum(_, _)
\* the loops "value_a += factor * value.value" over a list of (factor, wire)
r1cs_sum(group, wires) ==
    IF Len(wires) = 0 THEN gen(group, 0, TRUE)
    ELSE LET n == Len(wires)
             factor == wires[n][1]
             value == wires[n][2]
         IN Wire_add(r1cs_sum(group, SubSeq(wires, 1, n - 1)),
                     PyInt(factor * value.value))

\* the returned wire: value_a * value_b with is_const forced to False
r1cs_constraint_single_output(group, wires_a, wires_b) ==
    LET value_result == Wire_mul(r1cs_sum(group, wires_a), r1cs_sum(group, wires_b))
    IN [value_result EXCEPT !.is_const = FALSE]

\* what the gate adds to n_mul: the product of two const wires adds nothing,
\* then "Wire.n_mul += 1"
r1cs_n_mul(group, wires_a, wires_b) ==
    Wire_mul_count(r1cs_sum(group, wires_a), r1cs_sum(group, wires_b)) + 1

\* what the gate adds to n_wires: only what the product adds
r1cs_n_wires(group, wires_a, wires_b) ==
    Wire_mul_count(r1cs_sum(group, wires_a), r1cs_sum(group, wires_b))

(***************************************************************************)
(* is_threshold_reached (src/gates/listgates.py)                           *)
(***************************************************************************)
\* comparison.gt(group, wire, threshold): a call without the required
\* positional argument bits raises TypeError before gt's body runs
gt_without_bits(group, wire_one, wire_two) == Raise("TypeError")

\* is_threshold_reached with the comparison the docstring describes, at the
\* largest bit size gt admits
is_threshold_reached_WithBits(group, wires, threshold) ==
    PyList([i \in 1..Len(wires) |->
               gt(group, wires[i], threshold, bit_length(group) \div 2)])

\* is_threshold_reached(group, wires, threshold): the list comprehension, an
\* entry being the exception its call of gt raised
is_threshold_reached(group, wires, threshold) ==
    PyList([i \in 1..Len(wires) |-> gt_without_bits(group, wires[i], threshold)])

\* TRUE when is_threshold_reached raises: the first call that raises ends it
is_threshold_reached_raises(group, wires, threshold) ==
    \E i \in 1..Len(wires) : IsErr(is_threshold_reached(group, wires, threshold)[i])

(***************************************************************************)
(* Constraint counts: what one call of a gate adds to Wire.n_mul, product  *)
(* by product in the order of the gate's code, when no gate raises.        *)
(***************************************************************************)
RECURSIVE SumOf(_)
\* the sum of a list of numbers
SumOf(counts) == IF Len(counts) = 0 THEN 0 ELSE Head(counts) + SumOf(Tail(counts))

\* assert_equal: the product sum(wires_one) * group.gen(1)
assert_equal_n_mul(group, wires_one, wires_two) ==
    Wire_mul_count(PySum(wires_one), gen(group, 1, FALSE))

\* assert_bit: the product wire * (1 - wire)
assert_bit_n_mul(wire) == Wire_mul_count(wire, Wire_sub(PyInt(1), wire))

\* split with its equality check on the plain integer bit_values_sum
\* counted as one more product
split_n_mul_CountsEqualityCheck(group, wire, length) ==
    Len(split_bits(wire, length)) + 1

\* split: assert_equal on [bit_values_sum], then assert_bit on every bit wire
split_n_mul(group, wire, length) ==
    LET bits == split_bits(wire, length)
        bit_wires == split(group, wire, length)
    IN assert_equal_n_mul(group, <<PyInt(BitValuesSum(bits))>>, <<wire>>)
       + SumOf(PyList([i \in 1..Len(bit_wires) |-> assert_bit_n_mul(bit_wires[i])]))

\* the wire wire_b gt hands to split
gt_wire_b(group, wire_one, wire_two) ==
    LET diff_wire == Wire_sub(wire_one, wire_two)
    IN gen(group,
           IF wire_one.value >= wire_two.value THEN diff_wire.value
           ELSE group - diff_wire.value - 1,
           FALSE)

\* gt: split, assert_bit, the products 2 * wire_res * diff_wire, assert_equal
gt_n_mul(group, wire_one, wire_two, bits) ==
    LET diff_wire == Wire_sub(wire_one, wire_two)
        wire_res == gt(group, wire_one, wire_two, bits)
        twice == Wire_mul(PyInt(2), wire_res)
    IN split_n_mul(group, gt_wire_b(group, wire_one, wire_two), bits)
       + assert_bit_n_mul(wire_res)
       + Wire_mul_count(PyInt(2), wire_res)
       + Wire_mul_count(twice, diff_wire)
       + assert_equal_n_mul(group, <<Wire_mul(twice, diff_wire)>>, <<>>)

\* assert_gt: split, the product 2 * diff_wire, assert_equal
assert_gt_n_mul(group, wire_one, wire_two, bits) ==
    LET diff_wire == Wire_sub(wire_one, wire_two)
    IN split_n_mul(group, gen(group, diff_wire.value, FALSE), bits)
       + Wire_mul_count(PyInt(2), diff_wire)
       + assert_equal_n_mul(group, <<Wire_mul(PyInt(2), diff_wire)>>, <<>>)

\* eq_zero: result_wire * wire, wire * helper_wire and the two assert_equal
eq_zero_n_mul(group, wire) ==
    LET result_wire == eq_zero(group, wire)
        helper_wire == gen(group, IF wire.value = 0 THEN 0
                                   ELSE ModInverse(wire.value, wire.modulus), FALSE)
    IN Wire_mul_count(result_wire, wire)
       + assert_equal_n_mul(group, <<Wire_mul(result_wire, wire)>>, <<>>)
       + Wire_mul_count(wire, helper_wire)
       + assert_equal_n_mul(group, <<Wire_mul(wire, helper_wire)>>, <<>>)

\* eq
eq_n_mul(group, wire_one, wire_two) ==
    eq_zero_n_mul(group, Wire_sub(wire_one, wire_two))

\* and_gate of two inputs: their product
and_gate_two_inputs_n_mul(wire_one, wire_two) == Wire_mul_count(wire_one, wire_two)

\* if_then_else: condition_wire * if_wire and (1 - condition_wire) * else_wire
if_then_else_n_mul(condition_wire, if_wire, else_wire) ==
    Wire_mul_count(condition_wire, if_wire)
    + Wire_mul_count(Wire_sub(PyInt(1), condition_wire), else_wire)

\* if_then_set_zero: (1 - condition_wire) * input_wire
if_then_set_zero_n_mul(condition_wire, input_wire) ==
    Wire_mul_count(Wire_sub(PyInt(1), condition_wire), input_wire)

\* division that inverts the divisor before it looks at its value
division_n_mul_InvertsFirst(dividend, divisor) ==
    invert_count(divisor) + Wire_mul_count(dividend, invert(divisor))

\* division: nothing when it raises on a zero divisor, else divisor.invert()
\* and the product
division_n_mul(dividend, divisor) ==
    IF divisor.value = 0 THEN 0
    ELSE invert_count(divisor) + Wire_mul_count(dividend, invert(divisor))

\* division_safe: eq_zero, if_then_else, division
division_safe_n_mul(group, dividend, divisor) ==
    LET condition_wire == eq_zero(group, divisor)
    IN eq_zero_n_mul(group, divisor)
       + if_then_else_n_mul(condition_wire, PyInt(1), divisor)
       + division_n_mul(dividend, divisor_safe(group, divisor))

\* xadd: its six products
xadd_n_mul(p, q, m) ==
    Bind(Wire_add(p.x, p.z), LAMBDA v0a :
    Bind(Wire_sub(q.x, q.z), LAMBDA v1a :
    Bind(Wire_mul(v1a, v0a), LAMBDA v1 :
    Bind(Wire_sub(p.x, p.z), LAMBDA v0 :
    Bind(Wire_add(q.x, q.z), LAMBDA v2a :
    Bind(Wire_mul(v2a, v0), LAMBDA v2 :
    Bind(Wire_add(v1, v2), LAMBDA v3a :
    Bind(Wire_mul(v3a, v3a), LAMBDA v3 :
    Bind(Wire_sub(v1, v2), LAMBDA v4a :
    Bind(Wire_mul(v4a, v4a), LAMBDA v4 :
       Wire_mul_count(v1a, v0a) + Wire_mul_count(v2a, v0)
       + Wire_mul_count(v3a, v3a) + Wire_mul_count(v4a, v4a)
       + Wire_mul_count(m.z, v3) + Wire_mul_count(m.x, v4)))))))))))

\* xdbl: the division (A + 2) / 4 by a plain integer and its five products
xdbl_n_mul(p, A) ==
    Bind(Wire_add(p.x, p.z), LAMBDA v1a :
    Bind(Wire_mul(v1a, v1a), LAMBDA v1b :
    Bind(Wire_sub(p.x, p.z), LAMBDA v2a :
    Bind(Wire_mul(v2a, v2a), LAMBDA v2 :
    Bind(Wire_sub(v1b, v2), LAMBDA v1 :
    Bind(Wire_div(Wire_add(A, PyInt(2)), PyInt(4)), LAMBDA a24 :
    Bind(Wire_add(Wire_mul(a24, v1), v2), LAMBDA v3 :
       Wire_mul_count(v1a, v1a) + Wire_mul_count(v2a, v2a)
       + Wire_mul_count(v1b, v2)
       + Wire_div_count(Wire_add(A, PyInt(2)), PyInt(4))
       + Wire_mul_count(a24, v1) + Wire_mul_count(v1, v3))))))))

\* the denominator 4 * p.x * (x_square + A * p.x + 1) of xdbl_affine
xdbl_affine_denom(p, A) ==
    Bind(Wire_mul(p.x, p.x), LAMBDA x_square :
       Wire_mul(Wire_mul(PyInt(4), p.x),
                Wire_add(Wire_add(x_square, Wire_mul(A, p.x)), PyInt(1))))

\* xdbl_affine(p, A): the point, x an exception when division raises
xdbl_affine(p, A) ==
    Bind(Wire_mul(p.x, p.x), LAMBDA x_square :
    Bind(Wire_sub(x_square, PyInt(1)), LAMBDA x_squarem :
    Bind(Wire_mul(x_squarem, x_squarem), LAMBDA x_squarem_square :
       Point(division(x_squarem_square, xdbl_affine_denom(p, A)), PyNone, PyInt(1)))))

\* xdbl_affine: the four products before division, then division
xdbl_affine_n_mul(p, A) ==
    Bind(Wire_mul(p.x, p.x), LAMBDA x_square :
    Bind(Wire_sub(x_square, PyInt(1)), LAMBDA x_squarem :
    Bind(Wire_mul(x_squarem, x_squarem), LAMBDA x_squarem_square :
    Bind(Wire_mul(PyInt(4), p.x), LAMBDA four_x :
    Bind(Wire_add(Wire_add(x_square, Wire_mul(A, p.x)), PyInt(1)), LAMBDA bracket :
       Wire_mul_count(p.x, p.x) + Wire_mul_count(x_squarem, x_squarem)
       + Wire_mul_count(PyInt(4), p.x) + Wire_mul_count(A, p.x)
       + Wire_mul_count(four_x, bracket)
       + division_n_mul(x_squarem_square, xdbl_affine_denom(p, A)))))))

\* minimum: eq and assert_gt for every wire
minimum_n_mul(group, wires, bits) ==
    LET min_wire == gen(group, MinValue(wires), FALSE)
    IN SumOf(PyList([i \in 1..Len(wires) |->
                        eq_n_mul(group, wires[i], min_wire)
                        + assert_gt_n_mul(group, wires[i], min_wire, bits)]))

\* compute_min: the product n_votes * (1 - elim) of every choice, then minimum
compute_min_n_mul(self, ind_elim, votes_per_choice) ==
    SumOf(PyList([i \in 1..ZipLen(votes_per_choice, ind_elim) |->
                     Wire_mul_count(votes_per_choice[i],
                                    Wire_sub(PyInt(1), ind_elim[i]))]))
    + minimum_n_mul(self.group, compute_min_votes(ind_elim, votes_per_choice),
                    self.bits)

RECURSIVE find_first_indicator_n_mul_loop(_, _)
\* find_first_indicator: the product wire * (1 - done) of every wire left
find_first_indicator_n_mul_loop(wires, done) ==
    IF Len(wires) = 0 THEN 0
    ELSE LET not_done == Wire_sub(PyInt(1), done)
         IN Wire_mul_count(Head(wires), not_done)
            + find_first_indicator_n_mul_loop(
                  Tail(wires), Wire_add(done, Wire_mul(Head(wires), not_done)))

find_first_indicator_n_mul(group, wires) ==
    find_first_indicator_n_mul_loop(wires, gen(group, 0, FALSE))

\* one pass of the loop of find_and_count_min_of_set_inds: eq,
\* if_then_set_zero, gt, and_gate, if_then_set_zero
find_and_count_n_mul_pass(group, wire, ind, bits, min_wire) ==
    LET comp_eq == eq(group, wire, min_wire)
        not_ind == Wire_sub(PyInt(1), ind)
        comp_gt == gt(group, min_wire, wire, bits)
    IN eq_n_mul(group, wire, min_wire)
       + if_then_set_zero_n_mul(not_ind, comp_eq)
       + gt_n_mul(group, min_wire, wire, bits)
       + and_gate_two_inputs_n_mul(comp_eq, comp_gt)
       + if_then_set_zero_n_mul(not_ind, and_gate(group, <<comp_eq, comp_gt>>))

\* find_and_count_min_of_set_inds: nothing when min() raises
find_and_count_n_mul(group, wires, inds, bits) ==
    LET n == ZipLen(wires, inds)
        set == {i \in 1..n : inds[i].value = 1}
        min_val == CHOOSE m \in {wires[i].value : i \in set} :
                      \A i \in set : m <= wires[i].value
    IN IF set = {} THEN 0
       ELSE SumOf(PyList([i \in 1..n |->
                             find_and_count_n_mul_pass(
                                 group, wires[i], inds[i], bits,
                                 gen(group, min_val, FALSE))]))

RECURSIVE nsw_n_mul_loop(_, _, _, _, _)
\* the loop of NSWEliminator.break_ties over the vote lists that are left:
\* find_and_count_min_of_set_inds, eq_zero, and_gate, one if_then_else per
\* choice
nsw_n_mul_loop(self, ind_min, lists, done, res) ==
    IF Len(lists) = 0 THEN 0
    ELSE LET found == find_and_count_min_of_set_inds(self.group, Head(lists),
                                                     ind_min, self.bits)
             min_ind == found[1]
             n_minsm == Wire_sub(found[2], PyInt(1))
             ind_one_min == eq_zero(self.group, n_minsm)
             not_done == Wire_sub(PyInt(1), done)
             ind_set_res == and_gate(self.group, <<ind_one_min, not_done>>)
             after == nsw_loop(self, ind_min, <<Head(lists)>>, done, res)
         IN find_and_count_n_mul(self.group, Head(lists), ind_min, self.bits)
            + eq_zero_n_mul(self.group, n_minsm)
            + and_gate_two_inputs_n_mul(ind_one_min, not_done)
            + SumOf(PyList([i \in 1..ZipLen(min_ind, res) |->
                               if_then_else_n_mul(ind_set_res, min_ind[i], res[i])]))
            + nsw_n_mul_loop(self, ind_min, Tail(lists), after[1], after[2])

\* break_ties of the eliminator's class
break_ties_n_mul(self, ind_min, votes_per_choice) ==
    IF self.kind = "NSWEliminator"
    THEN nsw_n_mul_loop(self, ind_min,
             Reverse(self.votes_per_round)
                 \o <<self.randomness_per_round[self.current_round + 1]>>,
             gen(self.group, 0, FALSE),
             PyList([i \in 1..Len(ind_min) |-> gen(self.group, 0, FALSE)]))
    ELSE find_first_indicator_n_mul(self.group, ind_min)

\* ChoiceEliminator.eliminate_choice: compute_min, then break_ties
eliminate_choice_n_mul(self, round, ind_elim, votes_per_choice) ==
    compute_min_n_mul(self, ind_elim, votes_per_choice)
    + break_ties_n_mul(self, compute_min(self, ind_elim, votes_per_choice),
                       votes_per_choice)

RECURSIVE update_key_n_mul(_, _, _, _, _)
\* the inner loop of update_votes_on_elimination for one key: the product
\* inds_elim[pos_choice] * self.mapping[previous_ballot_str]
update_key_n_mul(mapping, n_choices, inds_elim, ballot_list, pos_choice) ==
    IF pos_choice >= n_choices THEN 0
    ELSE LET previous_ballot == <<pos_choice>> \o ballot_list
         IN IF \/ InOrdering(pos_choice, ballot_list)
               \/ previous_ballot \notin DOMAIN mapping
            THEN update_key_n_mul(mapping, n_choices, inds_elim, ballot_list,
                                  pos_choice + 1)
            ELSE Wire_mul_count(inds_elim[pos_choice + 1], mapping[previous_ballot])
                 + update_key_n_mul(mapping, n_choices, inds_elim, ballot_list,
                                    pos_choice + 1)

RECURSIVE update_keys_n_mul(_, _, _, _)
\* the outer loop of update_votes_on_elimination over the keys that are left
update_keys_n_mul(mapping, n_choices, inds_elim, keys) ==
    IF Len(keys) = 0 THEN 0
    ELSE update_key_n_mul(mapping, n_choices, inds_elim, Head(keys), 0)
         + update_keys_n_mul(update_key(mapping, n_choices, inds_elim, Head(keys), 0),
                             n_choices, inds_elim, Tail(keys))

\* IRVBallotManager.update_votes_on_elimination
update_votes_on_elimination_n_mul(mapping, n_choices, inds_elim) ==
    update_keys_n_mul(mapping, n_choices, inds_elim, mapping_keys(n_choices))

(***************************************************************************)
(* The wire-algebra machine: a caller holds a wire acc and applies one     *)
(* wire operation after the other to it, with a wire or a plain integer as *)
(* the other operand, in either operand order.                             *)
(***************************************************************************)
\* the wires group.gen(x, is_const) hands out
GenWires == {gen(WireModulus, v, c) : v \in 0..(WireModulus - 1), c \in BOOLEAN}

\* the other operand of an operation: a wire, a plain integer, or acc itself
Operands == GenWires \cup {PyInt(k) : k \in (0 - MaxInt)..MaxInt} \cup {acc}

NoOperand == PyInt(0)

LastIdle == [op |-> "idle", a |-> NoOperand, b |-> NoOperand, res |-> NoOperand,
             d_mul |-> 0, d_wires |-> 0]

CmpIdle == [pc |-> "idle"]
EcIdle == [pc |-> "idle"]
IrvIdle == [pc |-> "idle"]
GateIdle == [pc |-> "idle"]

InitWire ==
    /\ n_mul = 0
    /\ n_wires = 0
    /\ acc \in GenWires
    /\ last = [LastIdle EXCEPT !.op = "gen", !.res = acc]
    /\ cmp = CmpIdle
    /\ ec = EcIdle
    /\ irv = IrvIdle
    /\ gate = GateIdle

\* one operation: the counters move by what the code adds, the caller keeps
\* the result (its old wire when the operation raised)
Apply(op, x, y, res, dm, dw) ==
    /\ n_mul + dm <= MaxCount
    /\ n_mul' = n_mul + dm
    /\ n_wires' = n_wires + dw
    /\ acc' = IF IsErr(res) THEN acc ELSE res
    /\ last' = [op |-> op, a |-> x, b |-> y, res |-> res, d_mul |-> dm, d_wires |-> dw]
    /\ UNCHANGED <<cmp, ec, irv, gate>>

Left(b, swap) == IF swap THEN b ELSE acc
Right(b, swap) == IF swap THEN acc ELSE b

WireNeg == Apply("neg", acc, NoOperand, Wire_neg(acc), 0, 0)

WireAdd ==
    \E b \in Operands, swap \in BOOLEAN :
        LET x == Left(b, swap)
            y == Right(b, swap)
        IN Apply("add", x, y, Wire_add(x, y), 0, 0)

WireSub ==
    \E b \in Operands, swap \in BOOLEAN :
        LET x == Left(b, swap)
            y == Right(b, swap)
        IN Apply("sub", x, y, Wire_sub(x, y), 0, 0)

WireMul ==
    \E b \in Operands, swap \in BOOLEAN :
        LET x == Left(b, swap)
            y == Right(b, swap)
        IN Apply("mul", x, y, Wire_mul(x, y), Wire_mul_count(x, y), Wire_mul_count(x, y))

WireDiv ==
    \E b \in Operands, swap \in BOOLEAN :
        LET x == Left(b, swap)
            y == Right(b, swap)
        IN Apply("div", x, y, Wire_div(x, y), Wire_div_count(x, y), Wire_div_count(x, y))

WireInvert == Apply("invert", acc, NoOperand, invert(acc), invert_count(acc), invert_count(acc))

WireR1cs ==
    \E b \in GenWires, fa \in 1..MaxInt, fb \in 1..MaxInt :
        LET wires_a == <<(<<fa, acc>>)>>
            wires_b == <<(<<fb, b>>)>>
        IN Apply("r1cs", acc, b,
                 r1cs_constraint_single_output(WireModulus, wires_a, wires_b),
                 r1cs_n_mul(WireModulus, wires_a, wires_b),
                 r1cs_n_wires(WireModulus, wires_a, wires_b))

NextWire ==
    \/ WireNeg
    \/ WireAdd
    \/ WireSub
    \/ WireMul
    \/ WireDiv
    \/ WireInvert
    \/ WireR1cs

SpecWire == InitWire /\ [][NextWire]_vars

(***************************************************************************)
(* The comparison machine: one call of gt, lt or assert_gt on a group of   *)
(* prime modulus, with any bits argument and any two operand wires.        *)
(***************************************************************************)
IsPrime(n) == n >= 2 /\ \A d \in 2..(n - 1) : n % d # 0

Primes == {n \in 2..MaxModulus : IsPrime(n)}

InitCmp ==
    /\ n_mul = 0
    /\ n_wires = 0
    /\ acc = NoOperand
    /\ last = LastIdle
    /\ \E g \in Primes, bits \in 0..MaxBits, x \in 0..(MaxModulus - 1), y \in 0..(MaxModulus - 1) :
          /\ x < g
          /\ y < g
          /\ cmp = [pc |-> "call", group |-> g, bits |-> bits,
                    a |-> gen(g, x, FALSE), b |-> gen(g, y, FALSE),
                    res |-> NoOperand, raised |-> FALSE]
    /\ ec = EcIdle
    /\ irv = IrvIdle
    /\ gate = GateIdle

CmpReturn(pc, res, raised) ==
    /\ cmp.pc = "call"
    /\ cmp' = [cmp EXCEPT !.pc = pc, !.res = res, !.raised = raised]
    /\ UNCHANGED <<n_mul, n_wires, acc, last, ec, irv, gate>>

CmpGt ==
    LET res == gt(cmp.group, cmp.a, cmp.b, cmp.bits)
    IN CmpReturn("gt", res, IsErr(res))

CmpLt ==
    LET res == lt(cmp.group, cmp.a, cmp.b, cmp.bits)
    IN CmpReturn("lt", res, IsErr(res))

CmpAssertGt ==
    CmpReturn("assert_gt", NoOperand, assert_gt(cmp.group, cmp.a, cmp.b, cmp.bits))

NextCmp ==
    \/ CmpGt
    \/ CmpLt
    \/ CmpAssertGt

SpecCmp == InitCmp /\ [][NextCmp]_vars

(***************************************************************************)
(* The curve machine: one call of add_homogeneous_points or of             *)
(* exponent_homogeneous_point on points of the test curve, and, after an   *)
(* exponentiation, the sum P + ... + P built one add_homogeneous_points    *)
(* call at a time.                                                         *)
(***************************************************************************)
EcGroup == EcModulus
EcA == gen(EcGroup, CurveA, TRUE)
EcB == gen(EcGroup, CurveB, TRUE)

\* HomogeneousPoint(g.gen(x), g.gen(y), g.gen(z))
HPoint(x, y, z) ==
    Point(gen(EcGroup, x, FALSE), gen(EcGroup, y, FALSE), gen(EcGroup, z, FALSE))

\* the affine points (x, y) of the curve B*y^2 = x^3 + A*x^2 + x
CurvePoints ==
    {xy \in (0..(EcModulus - 1)) \X (0..(EcModulus - 1)) :
        (CurveB * xy[2] * xy[2]) % EcModulus
            = (xy[1] * xy[1] * xy[1] + CurveA * xy[1] * xy[1] + xy[1]) % EcModulus}

\* every point of the curve, the point at infinity (0 : 1 : 0) included, in
\* the homogeneous scalings by the factors of scales
ScaledPoints(scales) ==
    {HPoint((xy[1] * s) % EcModulus, (xy[2] * s) % EcModulus, s) :
        xy \in CurvePoints, s \in scales}
    \cup {HPoint(0, s, 0) : s \in scales}

PointAtInfinity == HPoint(0, 1, 0)

InitEC ==
    /\ n_mul = 0
    /\ n_wires = 0
    /\ acc = NoOperand
    /\ last = LastIdle
    /\ cmp = CmpIdle
    /\ \E P \in ScaledPoints(1..(EcModulus - 1)) :
          ec = [pc |-> "call", p |-> P, q |-> PointAtInfinity, k |-> 0,
                res |-> PointAtInfinity, swapped |-> PointAtInfinity,
                sum |-> PointAtInfinity, i |-> 0]
    /\ irv = IrvIdle
    /\ gate = GateIdle

\* add_homogeneous_points(g, A, B, p, q), and the same call with the
\* arguments swapped
EcAdd ==
    /\ ec.pc = "call"
    /\ \E Q \in ScaledPoints(1..MaxScale) :
          ec' = [ec EXCEPT !.pc = "add", !.q = Q,
                           !.res = add_homogeneous_points(EcGroup, EcA, EcB, ec.p, Q),
                           !.swapped = add_homogeneous_points(EcGroup, EcA, EcB, Q, ec.p)]
    /\ UNCHANGED <<n_mul, n_wires, acc, last, cmp, irv, gate>>

\* exponent_homogeneous_point(g, A, B, p, g.gen(k))
EcExp ==
    /\ ec.pc = "call"
    /\ \E k \in 0..(EcModulus - 1) :
          ec' = [ec EXCEPT !.pc = "exp", !.k = k,
                           !.res = exponent_homogeneous_point(EcGroup, EcA, EcB, ec.p,
                                                              gen(EcGroup, k, FALSE))]
    /\ UNCHANGED <<n_mul, n_wires, acc, last, cmp, irv, gate>>

\* one more add_homogeneous_points(g, A, B, sum, p) of the k-fold sum
EcSumStep ==
    /\ ec.pc = "exp"
    /\ ec.i < ec.k
    /\ ec' = [ec EXCEPT !.i = ec.i + 1,
                        !.sum = add_homogeneous_points(EcGroup, EcA, EcB, ec.sum, ec.p)]
    /\ UNCHANGED <<n_mul, n_wires, acc, last, cmp, irv, gate>>

NextEC ==
    \/ EcAdd
    \/ EcExp
    \/ EcSumStep

SpecEC == InitEC /\ [][NextEC]_vars

(***************************************************************************)
(* The IRV machine: ballots are cast into a ballot manager, then           *)
(* IRV.evaluate_election runs on it, one evaluate_round at a time.         *)
(***************************************************************************)
\* the randomness_per_round lists an NSWEliminator is built with
RandomnessChoices ==
    { << <<PyInt(0), PyInt(1), PyInt(2)>>, <<PyInt(0), PyInt(2), PyInt(1)>> >>,
      << <<PyInt(2), PyInt(0), PyInt(1)>>, <<PyInt(1), PyInt(0), PyInt(2)>> >> }

\* EliminateFirstPossibilityEliminator(group, bits)
EliminateFirstPossibilityEliminator(group, bits) ==
    [kind |-> "EliminateFirstPossibilityEliminator", group |-> group, bits |-> bits,
     randomness_per_round |-> <<>>, votes_per_round |-> <<>>, current_round |-> 0]

\* NSWEliminator(group, bits, randomness_per_round)
NSWEliminator(group, bits, randomness_per_round) ==
    [kind |-> "NSWEliminator", group |-> group, bits |-> bits,
     randomness_per_round |-> randomness_per_round, votes_per_round |-> <<>>,
     current_round |-> 0]

Eliminators ==
    {EliminateFirstPossibilityEliminator(IrvModulus, IrvBits)}
    \cup {NSWEliminator(IrvModulus, IrvBits, r) : r \in RandomnessChoices}

\* gen_list([0 for _ in range(n_choices)])
ZeroList(group, n) == PyList([i \in 1..n |-> gen(group, 0, FALSE)])

\* IRV(n_choices, choice_eliminator, group) and the empty ballot manager of
\* get_empty_ballots
InitIRV ==
    /\ n_mul = 0
    /\ n_wires = 0
    /\ acc = NoOperand
    /\ last = LastIdle
    /\ cmp = CmpIdle
    /\ ec = EcIdle
    /\ gate = GateIdle
    /\ \E e \in Eliminators :
          irv = [pc |-> "cast", n_choices |-> IrvChoices, group |-> IrvModulus,
                 choice_eliminator |-> e,
                 mapping |-> init_mapping(IrvChoices, IrvModulus), cast |-> 0,
                 ind_eliminated |-> ZeroList(IrvModulus, IrvChoices),
                 before_round |-> ZeroList(IrvModulus, IrvChoices),
                 round |-> 0, n_rounds |-> 0, raised |-> FALSE]

\* ballotmanager.add_votes_for_ordering(ordering, group.gen(n))
IrvAddVotes ==
    /\ irv.pc = "cast"
    /\ \E ordering \in DOMAIN irv.mapping, n \in 1..MaxBallots :
          /\ irv.cast + n <= MaxBallots
          /\ irv' = [irv EXCEPT
                        !.mapping = add_votes_for_ordering(irv.mapping, ordering,
                                                           gen(irv.group, n, FALSE)),
                        !.cast = irv.cast + n]
    /\ UNCHANGED <<n_mul, n_wires, acc, last, cmp, ec, gate>>

\* IRV.evaluate_election(ballotmanager, n_rounds) up to its loop
IrvEvaluateElection ==
    /\ irv.pc = "cast"
    /\ \E n_rounds \in 0..(irv.n_choices - 1) :
          irv' = [irv EXCEPT !.pc = "run", !.round = 0, !.n_rounds = n_rounds,
                             !.ind_eliminated = ZeroList(irv.group, irv.n_choices),
                             !.before_round = ZeroList(irv.group, irv.n_choices)]
    /\ UNCHANGED <<n_mul, n_wires, acc, last, cmp, ec, gate>>

\* IRV.evaluate_round: the IRV object after the call; a gate that raises
\* ends the call
evaluate_round(self) ==
    Bind(get_votes_per_choice(self.mapping, self.n_choices), LAMBDA votes_per_choice :
    Bind(eliminate_choice(self.choice_eliminator, self.round,
                          self.ind_eliminated, votes_per_choice),
         LAMBDA inds_elim :
       IF eliminate_choice_raises(self.choice_eliminator, self.ind_eliminated,
                                  votes_per_choice, inds_elim)
       THEN [self EXCEPT !.raised = TRUE]
       ELSE [self EXCEPT
                !.choice_eliminator =
                    eliminator_after(self.choice_eliminator, votes_per_choice),
                !.ind_eliminated =
                    PyList([i \in 1..self.n_choices |->
                               Wire_add(self.ind_eliminated[i], inds_elim[i])]),
                !.mapping = update_votes_on_elimination(self.mapping, self.n_choices,
                                                        inds_elim)]))

\* one turn of the loop of evaluate_election: evaluate_round(), round += 1;
\* before_round keeps the elimination vector the round started with
evaluate_election_turn(self) ==
    Bind(evaluate_round(self), LAMBDA after :
       IF after.raised THEN after
       ELSE [after EXCEPT !.round = self.round + 1,
                          !.before_round = self.ind_eliminated])

IrvEvaluateRound ==
    /\ irv.pc = "run"
    /\ ~irv.raised
    /\ irv.round < irv.n_rounds
    /\ irv' = evaluate_election_turn(irv)
    /\ UNCHANGED <<n_mul, n_wires, acc, last, cmp, ec, gate>>

NextIRV ==
    \/ IrvAddVotes
    \/ IrvEvaluateElection
    \/ IrvEvaluateRound

SpecIRV == InitIRV /\ [][NextIRV]_vars

(***************************************************************************)
(* The ballot machine: one ballot, a list of wires or a square matrix of   *)
(* wires over a group of prime modulus, is handed to the assert_* and the  *)
(* verify_* gate of one ballot type.                                       *)
(***************************************************************************)
\* the wires group.gen(v) of the field values v
FieldWires(g) == {gen(g, v, FALSE) : v \in 0..(g - 1)}

\* gen_list of every list of n field values
WireLists(g, n) == {PyList(f) : f \in [1..n -> FieldWires(g)]}

\* the n x n matrices of wires, the diagonal (which no gate reads) at 0
WireMatrices(g, n) ==
    {PyList([i \in 1..n |->
                PyList([j \in 1..n |->
                           gen(g, IF i = j THEN 0 ELSE m[<<i, j>>], FALSE)])]) :
        m \in [{ij \in (1..n) \X (1..n) : ij[1] # ij[2]} -> 0..(g - 1)]}

BallotPrimes == {g \in 2..MaxBallotModulus : IsPrime(g)}

InitBallot ==
    /\ n_mul = 0
    /\ n_wires = 0
    /\ acc = NoOperand
    /\ last = LastIdle
    /\ cmp = CmpIdle
    /\ ec = EcIdle
    /\ irv = IrvIdle
    /\ \E g \in BallotPrimes :
          \/ \E n \in 0..MaxBallotLen : \E b \in WireLists(g, n) :
                gate = [pc |-> "call", group |-> g, shape |-> "list", ballot |-> b,
                        arg |-> <<>>, res |-> NoOperand, raised |-> FALSE]
          \/ /\ g <= MaxMatrixModulus
             /\ \E n \in 2..MaxMatrixSize : \E b \in WireMatrices(g, n) :
                   gate = [pc |-> "call", group |-> g, shape |-> "matrix",
                           ballot |-> b, arg |-> <<>>, res |-> NoOperand,
                           raised |-> FALSE]

\* the verify_* and the assert_* gate of one ballot type have run on the ballot
BallotReturn(shape, pc, arg, res, raised) ==
    /\ gate.pc = "call"
    /\ gate.shape = shape
    /\ gate' = [gate EXCEPT !.pc = pc, !.arg = arg, !.res = res, !.raised = raised]
    /\ UNCHANGED <<n_mul, n_wires, acc, last, cmp, ec, irv>>

BallotSingleChoice ==
    BallotReturn("list", "single_choice", <<>>,
                 verify_single_choice(gate.group, gate.ballot),
                 assert_single_choice(gate.group, gate.ballot))

BallotMultipleChoice ==
    \E max_choices \in {PyNone} \cup {gen(gate.group, m, FALSE) : m \in 0..MaxMaxChoices} :
        BallotReturn("list", "multiple_choice", <<max_choices>>,
                     verify_multiple_choice(gate.group, gate.ballot, max_choices,
                                            bit_length(gate.group) \div 2),
                     assert_multiple_choice(gate.group, gate.ballot, max_choices,
                                            bit_length(gate.group) \div 2))

BallotBorda ==
    \E n \in 0..MaxPoints : \E ordered_points \in WireLists(gate.group, n) :
        BallotReturn("list", "borda", ordered_points,
                     verify_borda_ballot(gate.group, gate.ballot, ordered_points),
                     assert_borda_ballot(gate.group, gate.ballot, ordered_points))

BallotMajorityJudgement ==
    \E n \in 1..MaxPoints : \E grades \in WireLists(gate.group, n) :
        BallotReturn("list", "majorityjudgement", grades,
                     verify_majorityjudgement_ballot(gate.group, gate.ballot, grades),
                     assert_majorityjudgement_ballot(gate.group, gate.ballot, grades))

BallotCondorcet ==
    BallotReturn("matrix", "condorcet", <<>>,
                 verify_condorcet_ballot(gate.group, gate.ballot),
                 assert_condorcet_ballot(gate.group, gate.ballot))

NextBallot ==
    \/ BallotSingleChoice
    \/ BallotMultipleChoice
    \/ BallotBorda
    \/ BallotMajorityJudgement
    \/ BallotCondorcet

SpecBallot == InitBallot /\ [][NextBallot]_vars

(***************************************************************************)
(* compute_borda_tournament_style_ballot on one ranking, over the field    *)
(* and the bit size of the tests                                           *)
(***************************************************************************)
\* the ranks of bits bits
Ranks(bits) == 0..(Pow2(bits) - 1)

InitTournament ==
    /\ n_mul = 0
    /\ n_wires = 0
    /\ acc = NoOperand
    /\ last = LastIdle
    /\ cmp = CmpIdle
    /\ ec = EcIdle
    /\ irv = IrvIdle
    /\ \E n \in 1..MaxRanking : \E values \in [1..n -> Ranks(TournamentBits)] :
          gate = [pc |-> "call", group |-> TournamentModulus, shape |-> "ranking",
                  ballot |-> PyList([i \in 1..n |->
                                        gen(TournamentModulus, values[i], FALSE)]),
                  arg |-> TournamentBits, res |-> NoOperand, raised |-> FALSE]

\* ballot = compute_borda_tournament_style_ballot(group, ranking, bits)
TournamentCompute ==
    /\ gate.pc = "call"
    /\ gate.shape = "ranking"
    /\ gate' = [gate EXCEPT
                  !.pc = "tournament",
                  !.res = compute_borda_tournament_style_ballot(gate.group,
                                                                gate.ballot, gate.arg)]
    /\ UNCHANGED <<n_mul, n_wires, acc, last, cmp, ec, irv>>

NextTournament == TournamentCompute

SpecTournament == InitTournament /\ [][NextTournament]_vars

(***************************************************************************)
(* Two Pedersen commitments under the same g and h on the test curve, their*)
(* sum, and the commitment to the sums of the messages and of the          *)
(* randomness                                                              *)
(***************************************************************************)
InitPedersen ==
    /\ n_mul = 0
    /\ n_wires = 0
    /\ acc = NoOperand
    /\ last = LastIdle
    /\ cmp = CmpIdle
    /\ ec = EcIdle
    /\ irv = IrvIdle
    /\ \E g \in ScaledPoints({1}) : \E h \in {HPoint(10, 6, 1), PointAtInfinity} :
       \E values \in [1..4 -> 0..MaxCommitted] :
          gate = [pc |-> "call", group |-> EcGroup, shape |-> "commitment",
                  ballot |-> <<g, h>>,
                  arg |-> PyList([i \in 1..4 |-> gen(EcGroup, values[i], FALSE)]),
                  res |-> NoOperand, raised |-> FALSE]

\* one step of the commitment machine: the gate record moves from the
\* position from to the position to, holding the points computed so far
PedersenStep(from, to, c1, c2, product, of_sums) ==
    /\ gate.pc = from
    /\ gate.shape = "commitment"
    /\ gate' = [gate EXCEPT !.pc = to,
                            !.res = [c1 |-> c1, c2 |-> c2, product |-> product,
                                     of_sums |-> of_sums]]
    /\ UNCHANGED <<n_mul, n_wires, acc, last, cmp, ec, irv>>

\* c1 = pedersen_commitment_over_montgomery_curve(group, A, B, g, h, m1, r1)
PedersenCommitFirst ==
    PedersenStep("call", "c1",
                 pedersen_commitment_over_montgomery_curve(
                     EcGroup, EcA, EcB, gate.ballot[1], gate.ballot[2],
                     gate.arg[1], gate.arg[2]),
                 PointAtInfinity, PointAtInfinity, PointAtInfinity)

\* c2 = pedersen_commitment_over_montgomery_curve(group, A, B, g, h, m2, r2)
PedersenCommitSecond ==
    PedersenStep("c1", "c2", gate.res.c1,
                 pedersen_commitment_over_montgomery_curve(
                     EcGroup, EcA, EcB, gate.ballot[1], gate.ballot[2],
                     gate.arg[3], gate.arg[4]),
                 PointAtInfinity, PointAtInfinity)

\* product = add_homogeneous_points(group, A, B, c1, c2)
PedersenAdd ==
    PedersenStep("c2", "product", gate.res.c1, gate.res.c2,
                 add_homogeneous_points(EcGroup, EcA, EcB, gate.res.c1, gate.res.c2),
                 PointAtInfinity)

\* of_sums = pedersen_commitment_over_montgomery_curve(group, A, B, g, h,
\*                                                     m1 + m2, r1 + r2)
PedersenCommitSums ==
    PedersenStep("product", "pedersen", gate.res.c1, gate.res.c2, gate.res.product,
                 pedersen_commitment_over_montgomery_curve(
                     EcGroup, EcA, EcB, gate.ballot[1], gate.ballot[2],
                     Wire_add(gate.arg[1], gate.arg[3]),
                     Wire_add(gate.arg[2], gate.arg[4])))

NextPedersen ==
    \/ PedersenCommitFirst
    \/ PedersenCommitSecond
    \/ PedersenAdd
    \/ PedersenCommitSums

SpecPedersen == InitPedersen /\ [][NextPedersen]_vars

(***************************************************************************)
(* One call of convert_homogeneous_to_affine_coordinates on a triple of    *)
(* arbitrary field coordinates, or of                                      *)
(* exponent_homogeneous_point_bit_exponent on a triple with z = 0 or on    *)
(* (0, 0, z), with the curve parameters of the tests                       *)
(***************************************************************************)
\* HomogeneousPoint(x, y, z) for all field values x, y, z
AllTriples ==
    {HPoint(x, y, z) : x \in 0..(EcModulus - 1), y \in 0..(EcModulus - 1),
                       z \in 0..(EcModulus - 1)}

\* the triples with z = 0 and the triples (0, 0, z)
IsSpecialPoint(P) == P.z.value = 0 \/ (P.x.value = 0 /\ P.y.value = 0)

\* the lists of 1..MaxExponentBits bit wires
BitLists ==
    UNION {{PyList([i \in 1..n |-> gen(EcGroup, bits[i], FALSE)]) :
               bits \in [1..n -> {0, 1}]} : n \in 1..MaxExponentBits}

InitPoint ==
    /\ n_mul = 0
    /\ n_wires = 0
    /\ acc = NoOperand
    /\ last = LastIdle
    /\ cmp = CmpIdle
    /\ ec = EcIdle
    /\ irv = IrvIdle
    /\ \E P \in AllTriples :
          gate = [pc |-> "call", group |-> EcGroup, shape |-> "point", ballot |-> P,
                  arg |-> <<>>, res |-> PointAtInfinity, raised |-> FALSE]

\* convert_homogeneous_to_affine_coordinates(group, p)
PointConvert ==
    /\ gate.pc = "call"
    /\ gate.shape = "point"
    /\ gate' = [gate EXCEPT
                  !.pc = "convert",
                  !.res = convert_homogeneous_to_affine_coordinates(gate.group,
                                                                    gate.ballot)]
    /\ UNCHANGED <<n_mul, n_wires, acc, last, cmp, ec, irv>>

\* exponent_homogeneous_point_bit_exponent(g, A, B, p, exponent_bits)
PointExponentBits ==
    /\ gate.pc = "call"
    /\ gate.shape = "point"
    /\ IsSpecialPoint(gate.ballot)
    /\ \E exponent_bits \in BitLists :
          gate' = [gate EXCEPT
                     !.pc = "exponent_bits",
                     !.arg = exponent_bits,
                     !.res = exponent_homogeneous_point_bit_exponent(
                                 gate.group, EcA, EcB, gate.ballot, exponent_bits)]
    /\ UNCHANGED <<n_mul, n_wires, acc, last, cmp, ec, irv>>

NextPoint ==
    \/ PointConvert
    \/ PointExponentBits

SpecPoint == InitPoint /\ [][NextPoint]_vars

(***************************************************************************)
(* smith_set on one pairwise tally, over the fields of the evaluation      *)
(* tests                                                                   *)
(***************************************************************************)
TallyPrimes == {13, 251}

\* the n x n tallies with entries of bits bits (the diagonal, which smith_set
\* never reads, is 0)
Tallies(g, n, bits) ==
    {PyList([i \in 1..n |->
                PyList([j \in 1..n |->
                           gen(g, IF i = j THEN 0 ELSE m[<<i, j>>], FALSE)])]) :
        m \in [{ij \in (1..n) \X (1..n) : ij[1] # ij[2]} -> Ranks(bits)]}

InitSmith ==
    /\ n_mul = 0
    /\ n_wires = 0
    /\ acc = NoOperand
    /\ last = LastIdle
    /\ cmp = CmpIdle
    /\ ec = EcIdle
    /\ irv = IrvIdle
    /\ \E g \in TallyPrimes : \E n \in 1..MaxTally : \E bits \in 1..MaxTallyBits :
       \E tally \in Tallies(g, n, bits) :
          gate = [pc |-> "call", group |-> g, shape |-> "tally", ballot |-> tally,
                  arg |-> bits, res |-> <<>>, raised |-> FALSE]

\* ind_smith_set = smith_set(group, tally, bits)
SmithSetCall ==
    /\ gate.pc = "call"
    /\ gate.shape = "tally"
    /\ gate' = [gate EXCEPT
                  !.pc = "smith_set",
                  !.raised = smith_set_raises(gate.group, gate.ballot, gate.arg),
                  !.res = IF smith_set_raises(gate.group, gate.ballot, gate.arg)
                          THEN <<>>
                          ELSE smith_set(gate.group, gate.ballot, gate.arg)]
    /\ UNCHANGED <<n_mul, n_wires, acc, last, cmp, ec, irv>>

NextSmith == SmithSetCall

SpecSmith == InitSmith /\ [][NextSmith]_vars

(***************************************************************************)
(* A wire is produced by gen and by wire operations, then handed to        *)
(* eq_zero, or to eq together with a second wire                           *)
(***************************************************************************)
InitEqZero ==
    /\ n_mul = 0
    /\ n_wires = 0
    /\ acc = NoOperand
    /\ last = LastIdle
    /\ cmp = CmpIdle
    /\ ec = EcIdle
    /\ irv = IrvIdle
    /\ \E g \in Primes : \E w \in FieldWires(g) :
          gate = [pc |-> "wire", group |-> g, shape |-> "wire", ballot |-> w,
                  arg |-> NoOperand, res |-> NoOperand, raised |-> FALSE]

\* the wire becomes the result of one more wire operation
OperandStep(wire) ==
    /\ gate.pc = "wire"
    /\ gate.shape = "wire"
    /\ gate' = [gate EXCEPT !.ballot = wire]
    /\ UNCHANGED <<n_mul, n_wires, acc, last, cmp, ec, irv>>

\* wire = -wire
OperandNeg == OperandStep(Wire_neg(gate.ballot))

\* wire = wire + other
OperandAdd == \E other \in FieldWires(gate.group) : OperandStep(Wire_add(gate.ballot, other))

\* wire = wire - other
OperandSub == \E other \in FieldWires(gate.group) : OperandStep(Wire_sub(gate.ballot, other))

\* wire = wire * other
OperandMul == \E other \in FieldWires(gate.group) : OperandStep(Wire_mul(gate.ballot, other))

\* the comparison gate has run on the wire
EqReturn(pc, other, res) ==
    /\ gate.pc = "wire"
    /\ gate.shape = "wire"
    /\ gate' = [gate EXCEPT !.pc = pc, !.arg = other, !.res = res,
                            !.raised = IsErr(res)]
    /\ UNCHANGED <<n_mul, n_wires, acc, last, cmp, ec, irv>>

\* eq_zero(group, wire)
CmpEqZero == EqReturn("eq_zero", NoOperand, eq_zero(gate.group, gate.ballot))

\* eq(group, wire, other), other a wire of gen or its negation
CmpEq ==
    \E w \in FieldWires(gate.group) : \E other \in {w, Wire_neg(w)} :
        EqReturn("eq", other, eq(gate.group, gate.ballot, other))

NextEqZero ==
    \/ OperandNeg
    \/ OperandAdd
    \/ OperandSub
    \/ OperandMul
    \/ CmpEqZero
    \/ CmpEq

SpecEqZero == InitEqZero /\ [][NextEqZero]_vars

(***************************************************************************)
(* One call of division or of division_safe on two wires with values in    *)
(* [0, p)                                                                  *)
(***************************************************************************)
\* the wires gen(v) and gen(v, is_const=True) of the field
FieldOperands(g) == {gen(g, v, c) : v \in 0..(g - 1), c \in BOOLEAN}

InitDivision ==
    /\ n_mul = 0
    /\ n_wires = 0
    /\ acc = NoOperand
    /\ last = LastIdle
    /\ cmp = CmpIdle
    /\ ec = EcIdle
    /\ irv = IrvIdle
    /\ \E g \in Primes : \E dividend \in FieldOperands(g), divisor \in FieldOperands(g) :
          gate = [pc |-> "call", group |-> g, shape |-> "quotient",
                  ballot |-> dividend, arg |-> divisor, res |-> NoOperand,
                  raised |-> FALSE]

\* the call has returned res, or raised it
DivisionReturn(pc, res) ==
    /\ gate.pc = "call"
    /\ gate.shape = "quotient"
    /\ gate' = [gate EXCEPT !.pc = pc, !.res = res, !.raised = IsErr(res)]
    /\ UNCHANGED <<n_mul, n_wires, acc, last, cmp, ec, irv>>

\* division(dividend, divisor)
DivisionUnsafe == DivisionReturn("division", division(gate.ballot, gate.arg))

\* division_safe(group, dividend, divisor)
DivisionSafe ==
    DivisionReturn("division_safe", division_safe(gate.group, gate.ballot, gate.arg))

NextDivision ==
    \/ DivisionUnsafe
    \/ DivisionSafe

SpecDivision == InitDivision /\ [][NextDivision]_vars

(***************************************************************************)
(* One call of split on a wire of a prime field, with the counters at any  *)
(* start value                                                             *)
(***************************************************************************)
InitSplit ==
    /\ \E c \in 0..MaxCount :
          /\ n_mul = c
          /\ n_wires = c
    /\ acc = NoOperand
    /\ last = LastIdle
    /\ cmp = CmpIdle
    /\ ec = EcIdle
    /\ irv = IrvIdle
    /\ \E g \in Primes : \E wire \in FieldOperands(g) : \E length \in 0..MaxBits :
          gate = [pc |-> "call", group |-> g, shape |-> "split", ballot |-> wire,
                  arg |-> length, res |-> <<>>, raised |-> FALSE, before |-> n_mul]

\* split(group, wire, bit_length)
SplitCall ==
    /\ gate.pc = "call"
    /\ gate.shape = "split"
    /\ gate' = [gate EXCEPT !.pc = "split",
                            !.res = split(gate.group, gate.ballot, gate.arg),
                            !.raised = split_raises(gate.group, gate.ballot, gate.arg)]
    /\ n_mul' = n_mul + split_n_mul(gate.group, gate.ballot, gate.arg)
    /\ n_wires' = n_wires + split_n_mul(gate.group, gate.ballot, gate.arg)
    /\ UNCHANGED <<acc, last, cmp, ec, irv>>

NextSplit == SplitCall

SpecSplit == InitSplit /\ [][NextSplit]_vars

(***************************************************************************)
(* One call of xadd, xdbl or xdbl_affine on points whose coordinates are   *)
(* non-const wires of a field of odd characteristic, the curve parameter a *)
(* const wire                                                              *)
(***************************************************************************)
CountPrimes == {n \in 3..MaxCountModulus : IsPrime(n)}

\* the points (x : None : z) with non-const coordinates
CountPoints(g) ==
    {Point(gen(g, x, FALSE), PyNone, gen(g, z, FALSE)) :
        x \in 0..(g - 1), z \in 0..(g - 1)}

InitCurveCount ==
    /\ \E c \in 0..MaxCount :
          /\ n_mul = c
          /\ n_wires = c
    /\ acc = NoOperand
    /\ last = LastIdle
    /\ cmp = CmpIdle
    /\ \E g \in CountPrimes :
       \E P \in CountPoints(g), Q \in CountPoints(g), M \in CountPoints(g) :
       \E a \in 0..(g - 1) :
          ec = [pc |-> "call", p |-> P, q |-> Q, m |-> M,
                A |-> gen(g, a, TRUE), res |-> P, raised |-> FALSE,
                before |-> n_mul]
    /\ irv = IrvIdle
    /\ gate = GateIdle

\* the call has returned res, or raised, after d_mul products
CurveReturn(pc, res, d_mul) ==
    /\ ec.pc = "call"
    /\ ec' = [ec EXCEPT !.pc = pc, !.res = res, !.raised = IsErr(res.x)]
    /\ n_mul' = n_mul + d_mul
    /\ n_wires' = n_wires + d_mul
    /\ UNCHANGED <<acc, last, cmp, irv, gate>>

\* xadd(p, q, m)
CurveXadd == CurveReturn("xadd", xadd(ec.p, ec.q, ec.m), xadd_n_mul(ec.p, ec.q, ec.m))

\* xdbl(p, A)
CurveXdbl == CurveReturn("xdbl", xdbl(ec.p, ec.A), xdbl_n_mul(ec.p, ec.A))

\* xdbl_affine(p, A) on the affine point (p.x, None, 1)
CurveXdblAffine ==
    CurveReturn("xdbl_affine", xdbl_affine(ec.p, ec.A), xdbl_affine_n_mul(ec.p, ec.A))

NextCurveCount ==
    \/ CurveXadd
    \/ CurveXdbl
    \/ CurveXdblAffine

SpecCurveCount == InitCurveCount /\ [][NextCurveCount]_vars

(***************************************************************************)
(* One call of is_threshold_reached on a list of wires and a threshold     *)
(***************************************************************************)
InitThreshold ==
    /\ n_mul = 0
    /\ n_wires = 0
    /\ acc = NoOperand
    /\ last = LastIdle
    /\ cmp = CmpIdle
    /\ ec = EcIdle
    /\ irv = IrvIdle
    /\ \E g \in Primes : \E n \in 0..MaxThresholdLen :
       \E wires \in WireLists(g, n) : \E threshold \in FieldWires(g) :
          gate = [pc |-> "call", group |-> g, shape |-> "threshold", ballot |-> wires,
                  arg |-> threshold, res |-> <<>>, raised |-> FALSE]

\* is_threshold_reached(group, wires, threshold)
ThresholdCall ==
    /\ gate.pc = "call"
    /\ gate.shape = "threshold"
    /\ gate' = [gate EXCEPT
                   !.pc = "is_threshold_reached",
                   !.res = is_threshold_reached(gate.group, gate.ballot, gate.arg),
                   !.raised = is_threshold_reached_raises(gate.group, gate.ballot, gate.arg)]
    /\ UNCHANGED <<n_mul, n_wires, acc, last, cmp, ec, irv>>

NextThreshold == ThresholdCall

SpecThreshold == InitThreshold /\ [][NextThreshold]_vars

(***************************************************************************)
(* Casting votes: add_votes_for_ordering is called on a ballot manager     *)
(* with any list of integers of -1..n_choices as the ordering              *)
(***************************************************************************)
RECURSIVE IntLists(_, _)
\* the lists of at most n entries of the set values
IntLists(values, n) ==
    IF n = 0 THEN { <<>> }
    ELSE IntLists(values, n - 1)
         \cup {Append(l, v) : l \in {k \in IntLists(values, n - 1) : Len(k) = n - 1},
                              v \in values}

InitCast ==
    /\ n_mul = 0
    /\ n_wires = 0
    /\ acc = NoOperand
    /\ last = LastIdle
    /\ cmp = CmpIdle
    /\ ec = EcIdle
    /\ gate = GateIdle
    /\ \E n_choices \in 1..MaxCastChoices :
          irv = [pc |-> "cast", n_choices |-> n_choices, group |-> IrvModulus,
                 mapping |-> init_mapping(n_choices, IrvModulus), cast |-> 0,
                 before |-> init_mapping(n_choices, IrvModulus),
                 ordering |-> <<>>, n_votes |-> gen(IrvModulus, 0, FALSE),
                 raised |-> PyNone]

\* ballotmanager.add_votes_for_ordering(ordering, group.gen(n)); an
\* exception leaves the ballot manager as it was
CastAddVotes ==
    /\ irv.pc \in {"cast", "add_votes_for_ordering"}
    /\ \E ordering \in IntLists((0 - 1)..irv.n_choices, irv.n_choices + 1) :
       \E n \in 1..MaxBallots :
          /\ irv.cast + n <= MaxBallots
          /\ LET raised == add_votes_for_ordering_raises(irv.mapping, ordering)
                 n_votes == gen(irv.group, n, FALSE)
             IN irv' = [irv EXCEPT
                           !.pc = "add_votes_for_ordering",
                           !.before = irv.mapping,
                           !.ordering = ordering,
                           !.n_votes = n_votes,
                           !.raised = raised,
                           !.mapping =
                               IF raised # PyNone THEN irv.mapping
                               ELSE add_votes_for_ordering(
                                        irv.mapping,
                                        key_of_ordering(irv.mapping, ordering), n_votes),
                           !.cast = IF raised # PyNone THEN irv.cast ELSE irv.cast + n]
    /\ UNCHANGED <<n_mul, n_wires, acc, last, cmp, ec, gate>>

NextCast == CastAddVotes

SpecCast == InitCast /\ [][NextCast]_vars

(***************************************************************************)
(* The election machines: a ballot box is filled by calls of               *)
(* add_votes_for_ordering, then IRV.evaluate_election runs on it one       *)
(* evaluate_round at a time and returns; n_mul counts the constraints of   *)
(* the rounds.  In the re-election machine evaluate_election is then       *)
(* called once more on the same IRV object, with a fresh ballot manager    *)
(* holding the same ballots.                                               *)
(***************************************************************************)
\* IRV.evaluate_round: what the call adds to n_mul
evaluate_round_n_mul(self) ==
    LET votes_per_choice == get_votes_per_choice(self.mapping, self.n_choices)
        inds_elim == eliminate_choice(self.choice_eliminator, self.round,
                                      self.ind_eliminated, votes_per_choice)
    IN eliminate_choice_n_mul(self.choice_eliminator, self.round,
                              self.ind_eliminated, votes_per_choice)
       + update_votes_on_elimination_n_mul(self.mapping, self.n_choices, inds_elim)

\* IRV(n_choices, choice_eliminator, group) with its empty ballot manager
NewElection(n_choices, group, choice_eliminator, max_len, max_casts, max_votes, one_call_per_leader) ==
    [pc |-> "cast", n_choices |-> n_choices, group |-> group,
     choice_eliminator |-> choice_eliminator,
     mapping |-> init_mapping(n_choices, group), cast |-> 0,
     ind_eliminated |-> ZeroList(group, n_choices),
     before_round |-> ZeroList(group, n_choices),
     round |-> 0, n_rounds |-> 0, raised |-> FALSE,
     max_len |-> max_len, max_casts |-> max_casts, max_votes |-> max_votes,
     one_call_per_leader |-> one_call_per_leader,
     cast_mapping |-> init_mapping(n_choices, group),
     votes_before |-> ZeroList(group, n_choices),
     eliminator_before |-> choice_eliminator,
     counts_in_range |-> TRUE,
     election |-> 1, first_n_rounds |-> 0,
     first_result |-> ZeroList(group, n_choices)]

\* the election of the test suite's setUp: IrvChoices choices, one of the
\* eliminators, an empty ballot manager
InitElection ==
    /\ n_mul = 0
    /\ n_wires = 0
    /\ acc = NoOperand
    /\ last = LastIdle
    /\ cmp = CmpIdle
    /\ ec = EcIdle
    /\ gate = GateIdle
    /\ \E e \in Eliminators :
          irv = NewElection(IrvChoices, IrvModulus, e, IrvChoices, MaxCasts,
                            Pow2(IrvBits) - 1, FALSE)

\* ballotmanager.add_votes_for_ordering(ordering, group.gen(n)), the count
\* of every choice staying within bits bits; with one_call_per_leader every
\* call leads with a choice no earlier call led with, as the calls of the
\* test suite do
ElectionAddVotes ==
    /\ irv.pc = "cast"
    /\ irv.cast < irv.max_casts
    /\ \E ordering \in DOMAIN irv.mapping :
       \E n \in 1..irv.max_votes :
          /\ Len(ordering) \in 1..irv.max_len
          /\ get_n_ballots_with_first_choice(irv.mapping, irv.n_choices,
                                             ordering[1]).value + n
                < Pow2(irv.choice_eliminator.bits)
          /\ irv.one_call_per_leader =>
                get_n_ballots_with_first_choice(irv.mapping, irv.n_choices,
                                                ordering[1]).value = 0
          /\ irv' = [irv EXCEPT
                        !.mapping = add_votes_for_ordering(irv.mapping, ordering,
                                                           gen(irv.group, n, FALSE)),
                        !.cast = irv.cast + 1]
    /\ UNCHANGED <<n_mul, n_wires, acc, last, cmp, ec, gate>>

\* IRV.evaluate_election(ballotmanager, n_rounds) up to its loop
ElectionEvaluate ==
    /\ irv.pc = "cast"
    /\ \E n_rounds \in 0..(irv.n_choices - 1) :
          irv' = [irv EXCEPT !.pc = "run", !.round = 0, !.n_rounds = n_rounds,
                             !.cast_mapping = irv.mapping,
                             !.ind_eliminated = ZeroList(irv.group, irv.n_choices),
                             !.before_round = ZeroList(irv.group, irv.n_choices)]
    /\ UNCHANGED <<n_mul, n_wires, acc, last, cmp, ec, gate>>

\* every vote count is below 2^bits
VotesInRange(votes_per_choice, bits) ==
    \A i \in 1..Len(votes_per_choice) : votes_per_choice[i].value < Pow2(bits)

\* one turn of the loop of evaluate_election; votes_before and
\* eliminator_before keep what the round started with, counts_in_range
\* whether every round of the call started with counts below 2^bits
ElectionRound ==
    /\ irv.pc = "run"
    /\ ~irv.raised
    /\ irv.round < irv.n_rounds
    /\ irv' = [evaluate_election_turn(irv) EXCEPT
                  !.votes_before = get_votes_per_choice(irv.mapping, irv.n_choices),
                  !.eliminator_before = irv.choice_eliminator,
                  !.counts_in_range =
                      /\ irv.counts_in_range
                      /\ VotesInRange(get_votes_per_choice(irv.mapping, irv.n_choices),
                                      irv.choice_eliminator.bits)]
    /\ \E d_mul \in {evaluate_round_n_mul(irv)} :
          /\ n_mul' = n_mul + d_mul
          /\ n_wires' = n_wires + d_mul
    /\ UNCHANGED <<acc, last, cmp, ec, gate>>

\* return self.ind_eliminated
ElectionReturn ==
    /\ irv.pc = "run"
    /\ ~irv.raised
    /\ irv.round = irv.n_rounds
    /\ irv' = [irv EXCEPT !.pc = "done",
                          !.first_result = IF irv.election = 1 THEN irv.ind_eliminated
                                           ELSE @,
                          !.first_n_rounds = IF irv.election = 1 THEN irv.n_rounds
                                             ELSE @]
    /\ UNCHANGED <<n_mul, n_wires, acc, last, cmp, ec, gate>>

NextElection ==
    \/ ElectionAddVotes
    \/ ElectionEvaluate
    \/ ElectionRound
    \/ ElectionReturn

SpecElection == InitElection /\ [][NextElection]_vars

\* the NSW eliminator of the test suite
TestNSWEliminator ==
    NSWEliminator(IrvModulus, IrvBits,
                  << <<PyInt(0), PyInt(1), PyInt(2)>>, <<PyInt(0), PyInt(2), PyInt(1)>> >>)

\* the election of test_irv_nsw: IrvChoices choices, the NSW eliminator, on
\* ballots of at most MaxRecastLen choices, one call per leading choice
InitReelection ==
    /\ n_mul = 0
    /\ n_wires = 0
    /\ acc = NoOperand
    /\ last = LastIdle
    /\ cmp = CmpIdle
    /\ ec = EcIdle
    /\ gate = GateIdle
    /\ irv = NewElection(IrvChoices, IrvModulus, TestNSWEliminator, MaxRecastLen,
                         MaxRecasts, MaxRecastVotes, TRUE)

\* the second call irv.evaluate_election(ballotmanager, n_rounds) on the
\* same IRV object, ballotmanager a fresh manager holding the ballots of
\* the first call
ElectionEvaluateAgain ==
    /\ irv.pc = "done"
    /\ irv.election = 1
    /\ \E n_rounds \in 0..(irv.n_choices - 1) :
          irv' = [irv EXCEPT !.pc = "run", !.round = 0, !.election = 2,
                             !.n_rounds = n_rounds,
                             !.mapping = irv.cast_mapping,
                             !.counts_in_range = TRUE,
                             !.ind_eliminated = ZeroList(irv.group, irv.n_choices),
                             !.before_round = ZeroList(irv.group, irv.n_choices)]
    /\ UNCHANGED <<n_mul, n_wires, acc, last, cmp, ec, gate>>

NextReelection ==
    \/ ElectionAddVotes
    \/ ElectionEvaluate
    \/ ElectionRound
    \/ ElectionReturn
    \/ ElectionEvaluateAgain

SpecReelection == InitReelection /\ [][NextReelection]_vars

(***************************************************************************)
(* Properties of the wire algebra                                          *)
(***************************************************************************)
IsNonConstWire(x) == IsWire(x) /\ ~x.is_const

\* C1 (as claimed): n_mul changes only as stated: a * b adds exactly 1 when a
\* and b are both non-const wires and adds nothing in every other case
\* (either operand a const wire or a plain integer, in either order);
\* invert() adds exactly 1 iff its operand is non-const; additions,
\* subtractions and negations add nothing.
C1_NMulOnlyOnNonConstProducts ==
    /\ last.op = "mul" =>
          last.d_mul = IF IsNonConstWire(last.a) /\ IsNonConstWire(last.b) THEN 1 ELSE 0
    /\ last.op = "invert" => last.d_mul = IF IsNonConstWire(last.a) THEN 1 ELSE 0
    /\ last.op \in {"add", "sub", "neg"} => last.d_mul = 0

\* C7 (as claimed): every wire a wire operation produces has its value in
\* [0, p), and it compares equal to the wire of its canonical residue.
C7_ValueIsCanonicalResidue ==
    IsWire(last.res) =>
        /\ last.res.value \in 0..(last.res.modulus - 1)
        /\ Wire_eq(last.res, gen(last.res.modulus, last.res.value % last.res.modulus, FALSE))

\* C8 (as claimed): n_wires moves with n_mul: started from 0 and 0, after any
\* sequence of wire operations and r1cs_constraint_single_output calls the
\* two counters are equal.
C8_NWiresEqualsNMul == n_wires = n_mul

\* C9: for +, -, * and / on two wires or a wire and an integer, in either
\* order, the result is const exactly when both operands are (an integer
\* counts as const); unary - keeps the flag.
C9_IsConstIsConjunction ==
    /\ (last.op \in {"add", "sub", "mul", "div"} /\ IsWire(last.res)) =>
          last.res.is_const = (last.a.is_const /\ last.b.is_const)
    /\ (last.op = "neg" /\ IsWire(last.res)) => last.res.is_const = last.a.is_const

\* C9 witness: a const wire was multiplied by a non-const wire (the const
\* wire first) and the product is non-const.
C9_Witness ==
    /\ last.op = "mul"
    /\ IsWire(last.a) /\ last.a.is_const
    /\ IsNonConstWire(last.b)
    /\ IsWire(last.res) /\ ~last.res.is_const

(***************************************************************************)
(* Properties of the comparison gates                                      *)
(***************************************************************************)
\* floor(log2(n)) for n >= 1: the k with 2^k <= n < 2^(k+1)
FloorLog2(n) == CHOOSE k \in 0..n : Pow2(k) <= n /\ n < Pow2(k + 1)

\* the operands of the call fit in bits bits
CmpInRange == cmp.a.value < Pow2(cmp.bits) /\ cmp.b.value < Pow2(cmp.bits)

\* C5: for every bits the gate admits and all wires a, b with values in
\* [0, 2^bits): gt(a, b, bits) raises nothing and returns 1 if a >= b and 0
\* if a < b; lt(a, b, bits) returns what gt(b, a, bits) does: 1 if b >= a
\* and 0 if b < a.
C5_GtIsGreaterOrEqual ==
    (~bits_too_large(cmp.group, cmp.bits) /\ CmpInRange) =>
        /\ cmp.pc = "gt" =>
              /\ ~cmp.raised
              /\ cmp.res = gen(cmp.group, IF cmp.a.value >= cmp.b.value THEN 1 ELSE 0, FALSE)
        /\ cmp.pc = "lt" =>
              /\ ~cmp.raised
              /\ cmp.res = gen(cmp.group, IF cmp.b.value >= cmp.a.value THEN 1 ELSE 0, FALSE)

\* C5 witness: gt returned 0 for a < b with bits at the largest admitted value.
C5_Witness ==
    /\ cmp.pc = "gt"
    /\ cmp.bits = bit_length(cmp.group) \div 2
    /\ CmpInRange
    /\ cmp.a.value < cmp.b.value
    /\ IsWire(cmp.res) /\ cmp.res.value = 0

Infinity == <<"infinity">>

PointRaised(P) == IsErr(P.x) \/ IsErr(P.y) \/ IsErr(P.z)

\* the projective point a triple of wires stands for
Norm(P) ==
    IF P.z.value % EcModulus = 0 THEN Infinity
    ELSE LET zi == ModInverse(P.z.value % EcModulus, EcModulus)
         IN <<(P.x.value * zi) % EcModulus, (P.y.value * zi) % EcModulus>>

\* the chord-and-tangent sum of two normalised points
GroupSum(P, Q) ==
    IF P = Infinity THEN Q
    ELSE IF Q = Infinity THEN P
    ELSE IF P[1] = Q[1] /\ (P[2] + Q[2]) % EcModulus = 0 THEN Infinity
    ELSE LET num == IF P = Q THEN 3 * P[1] * P[1] + 2 * CurveA * P[1] + 1
                    ELSE Q[2] - P[2]
             den == IF P = Q THEN 2 * CurveB * P[2] ELSE Q[1] - P[1]
             lam == (num * ModInverse(den % EcModulus, EcModulus)) % EcModulus
             x3 == (CurveB * lam * lam - CurveA - P[1] - Q[1]) % EcModulus
             y3 == (lam * (P[1] - x3) - P[2]) % EcModulus
         IN <<x3, y3>>

PointValues(P) == <<P.x.value, P.y.value, P.z.value>>

\* C4: for every pair (P, Q) of curve points, not both at infinity, in any
\* homogeneous scaling, add_homogeneous_points(P, Q) raises nothing and
\* returns a representative of the group sum: Q itself when P is infinity, P
\* itself when Q is infinity, (0, 1, 0) when Q = -P (P = Q = (0, 0)
\* included), the tangent or chord result otherwise; and the swapped call
\* returns the same projective point.
C4_AddIsGroupSum ==
    (ec.pc = "add" /\ ~(Norm(ec.p) = Infinity /\ Norm(ec.q) = Infinity)) =>
        /\ ~PointRaised(ec.res)
        /\ ~PointRaised(ec.swapped)
        /\ Norm(ec.res) = GroupSum(Norm(ec.p), Norm(ec.q))
        /\ Norm(ec.swapped) = Norm(ec.res)
        /\ Norm(ec.q) = Infinity => PointValues(ec.res) = PointValues(ec.p)
        /\ Norm(ec.p) = Infinity => PointValues(ec.res) = PointValues(ec.q)
        /\ (/\ Norm(ec.p) # Infinity
            /\ Norm(ec.q) # Infinity
            /\ GroupSum(Norm(ec.p), Norm(ec.q)) = Infinity)
              => PointValues(ec.res) = <<0, 1, 0>>

\* C4 witness: two different finite points, both in a scaling with z # 1,
\* were added and the sum is a finite point.
C4_Witness ==
    /\ ec.pc = "add"
    /\ ec.p.z.value > 1
    /\ ec.q.z.value > 1
    /\ Norm(ec.p) # Norm(ec.q)
    /\ ~PointRaised(ec.res)
    /\ Norm(ec.res) # Infinity
    /\ Norm(ec.res) = GroupSum(Norm(ec.p), Norm(ec.q))

\* C3 (as claimed): for every curve point P in any homogeneous scaling and
\* every scalar k in [0, p), exponent_homogeneous_point(P, k) stands for the
\* same projective point as P added to itself k times with
\* add_homogeneous_points (the point at infinity for k = 0).
C3_ExponentIsKFoldSum ==
    (ec.pc = "exp" /\ ec.i = ec.k) =>
        /\ ~PointRaised(ec.res)
        /\ Norm(ec.res) = Norm(ec.sum)

(***************************************************************************)
(* Properties of the IRV subsystem                                         *)
(***************************************************************************)
RECURSIVE SumValues(_)
\* the integer sum of the values of a list of wires
SumValues(wires) ==
    IF Len(wires) = 0 THEN 0 ELSE Head(wires).value + SumValues(Tail(wires))

\* the sum of all counts a ballot manager stores under its keys
SumCounts(mapping, keys) ==
    SumValues(PyList([i \in 1..Len(keys) |-> mapping[keys[i]]]))

StoredCounts == SumCounts(irv.mapping, mapping_keys(irv.n_choices))

\* the number of entries of the elimination vector that are 1
Ones(ind) == Cardinality({i \in 1..Len(ind) : ind[i].value = 1})

\* every count of the list is below 2^bits
AllBelow(votes_per_choice, bits) ==
    \A c \in 1..Len(votes_per_choice) : votes_per_choice[c].value < Pow2(bits)

\* every per-choice count is below 2^bits
CountsInRange ==
    AllBelow(get_votes_per_choice(irv.mapping, irv.n_choices),
             irv.choice_eliminator.bits)

\* C2: in every IRV run (per-choice counts below 2^bits, n_rounds in
\* 0..n_choices-1, first-possibility or NSW eliminator with pairwise distinct
\* randomness) no round raises, and after every completed round each entry of
\* the elimination vector is 0 or 1, an entry that was 1 before the round is
\* still 1, and the number of 1s is the round counter; so the returned vector
\* has n_rounds ones and, for n_rounds = n_choices - 1, exactly one 0.
C2_EliminationVector ==
    (irv.pc = "run" /\ CountsInRange) =>
        /\ ~irv.raised
        /\ \A i \in 1..irv.n_choices :
              /\ IsWire(irv.ind_eliminated[i])
              /\ irv.ind_eliminated[i].value \in {0, 1}
              /\ irv.before_round[i].value = 1 => irv.ind_eliminated[i].value = 1
        /\ Ones(irv.ind_eliminated) = irv.round
        /\ irv.round = irv.n_rounds =>
              /\ Ones(irv.ind_eliminated) = irv.n_rounds
              /\ irv.n_rounds = irv.n_choices - 1 =>
                    Cardinality({i \in 1..irv.n_choices :
                                    irv.ind_eliminated[i].value = 0}) = 1

\* C2 witness: an NSW election over MaxBallots ballots has run all its
\* n_choices - 1 rounds, the last one on tied minimum counts, and one choice
\* is left.
C2_Witness ==
    /\ irv.pc = "run"
    /\ CountsInRange
    /\ irv.choice_eliminator.kind = "NSWEliminator"
    /\ irv.cast = MaxBallots
    /\ irv.round = irv.n_rounds
    /\ irv.n_rounds = irv.n_choices - 1
    /\ Ones(irv.before_round) = irv.n_choices - 2
    /\ Ones(irv.ind_eliminated) = irv.n_choices - 1

\* C10 (as claimed): at every point in the life of a ballot manager (after
\* creation, after any add_votes_for_ordering calls, after any number of
\* rounds with their update_votes_on_elimination) the sum of all stored
\* counts is the number of ballots cast.
C10_TotalIsBallotsCast ==
    irv.pc \in {"cast", "run"} => StoredCounts = irv.cast

(***************************************************************************)
(* Properties of the ballot gates                                          *)
(***************************************************************************)
\* the ballot types of the list ballots and of the matrix ballots
BallotTypes == {"single_choice", "multiple_choice", "borda", "majorityjudgement",
                "condorcet"}

\* C11 (as claimed): for every ballot and each ballot type, verify_* returns
\* 1 exactly when assert_* on the same ballot does not raise, and returns 0
\* exactly when assert_* raises ErrInvalid.
C11_VerifyAgreesWithAssert ==
    gate.pc \in BallotTypes =>
        /\ IsWire(gate.res)
        /\ gate.res.value \in {0, 1}
        /\ gate.res.value = 1 <=> ~gate.raised

\* the matrix is the comparison matrix of a strict total order of its choices:
\* every off-diagonal entry is a bit, exactly one of M[i][j], M[j][i] is 1,
\* and i over j, j over k implies i over k
IsStrictTotalOrder(ballot) ==
    LET n == Len(ballot)
        M(i, j) == ballot[i][j].value
    IN  /\ \A i, j \in 1..n : i # j => M(i, j) \in {0, 1}
        /\ \A i, j \in 1..n : i # j => M(i, j) + M(j, i) = 1
        /\ \A i, j, k \in 1..n :
              (i # j /\ j # k /\ i # k /\ M(i, j) = 1 /\ M(j, k) = 1) => M(i, k) = 1

\* C12 (as claimed): assert_condorcet_ballot raises for every n x n matrix,
\* n >= 2, that has an off-diagonal entry that is not a bit, a pair i # j with
\* M[i][j] + M[j][i] # 1, or an intransitive triple: it accepts only strict
\* total orders.
C12_CondorcetAcceptsOnlyTotalOrders ==
    gate.pc = "condorcet" => (~IsStrictTotalOrder(gate.ballot) => gate.raised)

\* the values of a list of wires
WireValues(wires) == {wires[i].value : i \in 1..Len(wires)}

\* C13 (as claimed): assert_borda_ballot raises and verify_borda_ballot
\* returns 0 for every ballot with an entry that equals no value of the
\* ordered points list.
C13_BordaRejectsForeignEntries ==
    (/\ gate.pc = "borda"
     /\ ~(WireValues(gate.ballot) \subseteq WireValues(gate.arg)))
        => (gate.raised /\ gate.res.value = 0)

\* the ballot gives one entry to every point of the list, the points are
\* pairwise different and fewer than p, and an entry of the ballot equals no
\* point of the list
IsFullBallotWithForeignEntry ==
    /\ Len(gate.arg) = Len(gate.ballot)
    /\ Len(gate.ballot) < gate.group
    /\ Cardinality(WireValues(gate.arg)) = Len(gate.arg)
    /\ ~(WireValues(gate.ballot) \subseteq WireValues(gate.arg))

\* C13 (amended): assert_borda_ballot raises and verify_borda_ballot returns
\* 0 for every ballot that has as many entries as the ordered points list,
\* fewer than p, the points pairwise different, and that holds an entry which
\* equals no value of the list.
C13_BordaRejectsForeignEntriesOfFullBallots ==
    (gate.pc = "borda" /\ IsFullBallotWithForeignEntry)
        => (gate.raised /\ gate.res.value = 0)

\* a ballot of two entries, one of them a point of the list and one foreign,
\* was rejected by both gates
C13_Witness ==
    /\ gate.pc = "borda"
    /\ IsFullBallotWithForeignEntry
    /\ Len(gate.ballot) = 2
    /\ WireValues(gate.ballot) \cap WireValues(gate.arg) # {}
    /\ gate.raised
    /\ gate.res.value = 0

\* the tournament-style Borda point of choice i of a ranking: two points per
\* choice ranked strictly lower, one point when another choice has the same rank
TournamentPoint(ranking, i) ==
    2 * Cardinality({j \in 1..Len(ranking) : ranking[j].value < ranking[i].value})
    + (IF \E j \in 1..Len(ranking) : j # i /\ ranking[j].value = ranking[i].value
       THEN 1 ELSE 0)

TournamentPointZeroHighest(ranking, i) ==
    2 * Cardinality({j \in 1..Len(ranking) :
                        /\ j # i
                        /\ \/ ranking[i].value = 0
                           \/ ranking[j].value < ranking[i].value})
    + (IF \E j \in 1..Len(ranking) : j # i /\ ranking[j].value = ranking[i].value
       THEN 1 ELSE 0)

C15_PedersenHomomorphic ==
    gate.pc = "pedersen" =>
        /\ ~PointRaised(gate.res.product)
        /\ ~PointRaised(gate.res.of_sums)
        /\ Norm(gate.res.product) = Norm(gate.res.of_sums)

\* C16: on a point with z = 0 and on the 2-torsion point (0, 0, z), z # 0,
\* exponent_homogeneous_point_bit_exponent raises nothing for every bit list
\* of length >= 1, whatever its leading bit: the result is exactly (0, 1, 0)
\* when z = 0; for (0, 0, z), z # 0, it is exactly (0, 0, 1) when the last
\* bit is 1 and exactly (0, 1, 0) when the last bit is 0.
C16_ExponentOfSpecialPoints ==
    gate.pc = "exponent_bits" =>
        /\ ~PointRaised(gate.res)
        /\ PointValues(gate.res) =
              IF gate.ballot.z.value = 0 THEN <<0, 1, 0>>
              ELSE IF gate.arg[Len(gate.arg)].value = 1 THEN <<0, 0, 1>>
              ELSE <<0, 1, 0>>

\* C16 witness: the 2-torsion point in a scaling z > 1 was raised to a bit
\* list of more than one bit with leading bit 0 and last bit 1, and the result
\* is (0, 0, 1).
C16_Witness ==
    /\ gate.pc = "exponent_bits"
    /\ gate.ballot.z.value > 1
    /\ Len(gate.arg) > 1
    /\ gate.arg[1].value = 0
    /\ gate.arg[Len(gate.arg)].value = 1
    /\ PointValues(gate.res) = <<0, 0, 1>>

\* C17 (as claimed): for every triple (x, y, z) of field values,
\* convert_homogeneous_to_affine_coordinates raises nothing and returns
\* (x/z, y/z, 1) when z # 0 and exactly (0, 1, 0) when z = 0, whatever x and
\* y are.
C17_ConvertToAffine ==
    gate.pc = "convert" =>
        /\ ~PointRaised(gate.res)
        /\ PointValues(gate.res) =
              IF gate.ballot.z.value = 0 THEN <<0, 1, 0>>
              ELSE LET zi == ModInverse(gate.ballot.z.value, EcModulus)
                   IN <<(gate.ballot.x.value * zi) % EcModulus,
                        (gate.ballot.y.value * zi) % EcModulus, 1>>

\* every member of S has more votes over every choice outside S than that
\* choice has over it
IsDominating(tally, S) ==
    \A i \in S : \A j \in (1..Len(tally)) \ S :
        tally[i][j].value > tally[j][i].value

\* the Smith set of a tally: the smallest non-empty dominating set
SmithSet(tally) ==
    CHOOSE S \in SUBSET (1..Len(tally)) :
        /\ S # {}
        /\ IsDominating(tally, S)
        /\ \A T \in SUBSET (1..Len(tally)) :
              (T # {} /\ IsDominating(tally, T)) => Cardinality(S) <= Cardinality(T)

\* C18 (as claimed): for every n x n pairwise tally, n >= 1, with entries in
\* [0, 2^bits), smith_set raises nothing and returns a 0/1 vector that marks
\* exactly the Smith set of the tally.
C18_SmithSet ==
    gate.pc = "smith_set" =>
        /\ ~gate.raised
        /\ Len(gate.res) = Len(gate.ballot)
        /\ \A i \in 1..Len(gate.ballot) :
              gate.res[i].value = IF i \in SmithSet(gate.ballot) THEN 1 ELSE 0

\* C19 (as claimed): for every wire w produced by gen and by wire operations,
\* a unary negation included, eq_zero(w) raises nothing and returns 1 if
\* w = 0 (mod p) and 0 otherwise; eq(a, b) raises nothing and returns 1 if
\* a = b (mod p) and 0 otherwise.
C19_EqZeroIndicator ==
    /\ gate.pc = "eq_zero" =>
          /\ ~gate.raised
          /\ gate.res.value = IF gate.ballot.value % gate.group = 0 THEN 1 ELSE 0
    /\ gate.pc = "eq" =>
          /\ ~gate.raised
          /\ gate.res.value =
                IF (gate.ballot.value - gate.arg.value) % gate.group = 0 THEN 1 ELSE 0

\* res is the quotient dividend * divisor^-1 of the field: a wire with a
\* value in [0, p) whose product with the divisor is the dividend
IsQuotient(group, res, dividend, divisor) ==
    /\ IsWire(res)
    /\ res.value \in 0..(group - 1)
    /\ (res.value * divisor.value) % group = dividend.value % group

\* C20: on wires a, b with values in [0, p), division(a, b) raises ValueError
\* exactly when b = 0 and returns a * b^-1 otherwise; division_safe(a, b)
\* raises nothing, returns a * b^-1 when b # 0 and a wire with a value in
\* [0, p) when b = 0.
C20_Division ==
    /\ gate.pc = "division" =>
          /\ gate.raised <=> gate.arg.value = 0
          /\ gate.raised => gate.res = ValueError
          /\ ~gate.raised => IsQuotient(gate.group, gate.res, gate.ballot, gate.arg)
    /\ gate.pc = "division_safe" =>
          /\ ~gate.raised
          /\ IsWire(gate.res)
          /\ gate.res.value \in 0..(gate.group - 1)
          /\ gate.arg.value # 0 =>
                IsQuotient(gate.group, gate.res, gate.ballot, gate.arg)

\* C20 witness: division_safe has divided a wire other than 0 and 1 by the
\* wire 0 and returned a wire.
C20_Witness ==
    /\ gate.pc = "division_safe"
    /\ gate.arg.value = 0
    /\ gate.ballot.value > 1
    /\ IsWire(gate.res)

(***************************************************************************)
(* Properties of the constraint counts of split and of the curve gates     *)
(***************************************************************************)
\* the value the bit wires encode, most significant first
RECURSIVE WeightedSum(_)
WeightedSum(bit_wires) ==
    IF Len(bit_wires) = 0 THEN 0
    ELSE bit_wires[Len(bit_wires)].value
         + 2 * WeightedSum(SubSeq(bit_wires, 1, Len(bit_wires) - 1))

\* split has returned the bit_length bits of its non-const input wire
SplitReturnedBits ==
    /\ gate.pc = "split"
    /\ ~gate.raised
    /\ Len(gate.res) = gate.arg
    /\ \A i \in 1..Len(gate.res) : IsNonConstWire(gate.res[i]) /\ gate.res[i].value \in {0, 1}
    /\ WeightedSum(gate.res) = gate.ballot.value

\* split was called on a non-const wire with a value in [0, 2^L)
SplitInRange ==
    /\ gate.pc = "split"
    /\ IsNonConstWire(gate.ballot)
    /\ gate.ballot.value < Pow2(gate.arg)

\* C24 (as claimed): for every non-const wire w with value in [0, 2^L),
\* split(w, bit_length=L) returns exactly L one-bit wires, most significant
\* first, whose weighted sum equals w, and it raises n_mul by exactly L + 1:
\* one constraint per bit plus one for the equality check.
C24_SplitAddsLPlusOne ==
    SplitInRange => SplitReturnedBits /\ n_mul = gate.before + gate.arg + 1

\* C24 (amended): for every L >= 1 and every non-const wire w with value in
\* [0, 2^L), split(w, bit_length=L) returns exactly L one-bit wires, most
\* significant first, whose weighted sum equals w, and it raises n_mul by
\* exactly L: one constraint per bit and none for the equality check.
C24_SplitAddsL ==
    SplitInRange /\ gate.arg >= 1 => SplitReturnedBits /\ n_mul = gate.before + gate.arg

\* split of a wire of value 7 with bit_length 4 has run, four constraints on
C24_Witness ==
    /\ SplitInRange
    /\ gate.ballot.value = 7
    /\ gate.arg = 4
    /\ gate.before = 2
    /\ n_mul = 6

\* C25 (as claimed): with all point coordinates non-const wires and the
\* curve parameter A a const wire, and for every coordinate value, one call
\* of xadd raises n_mul by exactly 6, one call of xdbl by exactly 5, and one
\* call of xdbl_affine by exactly 6.
C25_CurveGateCounts ==
    /\ ec.pc = "xadd" => n_mul = ec.before + 6
    /\ ec.pc = "xdbl" => n_mul = ec.before + 5
    /\ ec.pc = "xdbl_affine" => n_mul = ec.before + 6

\* C25 (amended): with all point coordinates non-const wires and the curve
\* parameter A a const wire, and for every coordinate value, one call of
\* xadd raises n_mul by exactly 6, one call of xdbl by exactly 5, and one
\* call of xdbl_affine by exactly 6 when it returns; when the denominator
\* 4x(x^2 + Ax + 1) is zero it raises ValueError after raising n_mul by 4.
C25_CurveGateCountsWhenReturning ==
    /\ ec.pc = "xadd" => ~ec.raised /\ n_mul = ec.before + 6
    /\ ec.pc = "xdbl" => ~ec.raised /\ n_mul = ec.before + 5
    /\ ec.pc = "xdbl_affine" =>
          /\ ec.raised <=> xdbl_affine_denom(ec.p, ec.A).value = 0
          /\ n_mul = ec.before + (IF ec.raised THEN 4 ELSE 6)

\* xdbl_affine has returned the double of a point with x = 2 on the curve
\* with A = 1, six constraints on
C25_Witness ==
    /\ ec.pc = "xdbl_affine"
    /\ ~ec.raised
    /\ ec.p.x.value = 2
    /\ ec.A.value = 1
    /\ ec.before = 1
    /\ n_mul = 7

(***************************************************************************)
(* Properties of is_threshold_reached                                      *)
(***************************************************************************)
\* the list and the threshold are within the range of the comparison gate
ThresholdInRange ==
    \A w \in {gate.arg} \cup {gate.ballot[i] : i \in 1..Len(gate.ballot)} :
        w.value < Pow2(bit_length(gate.group) \div 2)

\* C23: for every list L of wires and every threshold wire t (values within
\* the comparison gate's range), is_threshold_reached(L, t) returns without
\* error a list of |L| indicator wires whose entry i is 1 if L[i] >= t and 0
\* otherwise.
C23_ThresholdIndicators ==
    gate.pc = "is_threshold_reached" /\ ThresholdInRange =>
        /\ ~gate.raised
        /\ Len(gate.res) = Len(gate.ballot)
        /\ \A i \in 1..Len(gate.res) :
              /\ IsWire(gate.res[i])
              /\ gate.res[i].value
                    = (IF gate.ballot[i].value >= gate.arg.value THEN 1 ELSE 0)

(***************************************************************************)
(* Properties of add_votes_for_ordering                                    *)
(***************************************************************************)
\* a legal ordering: no duplicate choice, every choice in 0..n_choices-1
IsLegalOrdering(ordering, n_choices) ==
    /\ \A i \in 1..Len(ordering) : ordering[i] \in 0..(n_choices - 1)
    /\ \A i, j \in 1..Len(ordering) : i # j => ordering[i] # ordering[j]

\* the last call added n_votes to the count of its ordering and to no other
AddedToOrderingOnly ==
    /\ irv.raised = PyNone
    /\ irv.ordering \in DOMAIN irv.mapping
    /\ \A key \in DOMAIN irv.mapping :
          irv.mapping[key].value
             = (irv.before[key].value
                + (IF key = irv.ordering THEN irv.n_votes.value ELSE 0)) % irv.group

\* C22: add_votes_for_ordering(ordering, n) fails with ErrInvalid (the same
\* error kind the assertion gates raise, ValueError) whenever the ordering
\* contains a duplicate choice or a choice outside 0..n_choices-1, and in
\* that case no stored count changes; for a legal ordering it adds n to
\* exactly that ordering's count and changes no other count.
C22_IllegalOrderingIsErrInvalid ==
    irv.pc = "add_votes_for_ordering" =>
        IF IsLegalOrdering(irv.ordering, irv.n_choices)
        THEN AddedToOrderingOnly
        ELSE irv.raised = ValueError /\ irv.mapping = irv.before

(***************************************************************************)
(* Properties of the election machine                                      *)
(***************************************************************************)
RECURSIVE election_n_mul(_, _)
\* what the loop of evaluate_election adds to n_mul in its next turns turns
election_n_mul(self, turns) ==
    IF turns = 0 THEN 0
    ELSE evaluate_round_n_mul(self)
         + election_n_mul(evaluate_election_turn(self), turns - 1)

\* the first call of evaluate_election of the same election on a ballot box
\* without ballots
ElectionWithoutBallots ==
    [irv EXCEPT !.mapping = init_mapping(irv.n_choices, irv.group),
                !.choice_eliminator = [@ EXCEPT !.votes_per_round = <<>>],
                !.ind_eliminated = ZeroList(irv.group, irv.n_choices),
                !.round = 0]

\* division_safe adds the same number of constraints whatever the divisor
DivisionSafeCountIsFixed ==
    \A dividend \in FieldWires(IrvModulus), divisor \in FieldWires(IrvModulus) :
        division_safe_n_mul(IrvModulus, dividend, divisor)
            = division_safe_n_mul(IrvModulus, dividend, gen(IrvModulus, 0, FALSE))

\* C21: constraint counts are independent of witness values: for fixed
\* modulus, n_choices, n_rounds, bits and eliminator, any two runs of
\* evaluate_election started with n_mul = 0 on different cast ballots
\* (per-choice counts below 2^bits) end with the same n_mul, here that of
\* the run on no ballots; likewise division_safe adds the same number for a
\* zero and for a non-zero divisor.
C21_CountsIndependentOfWitness ==
    /\ DivisionSafeCountIsFixed
    /\ irv.pc = "done" /\ irv.election = 1 /\ irv.counts_in_range =>
          n_mul = election_n_mul(ElectionWithoutBallots, irv.n_rounds)

\* no call of the election machine raises
ElectionNeverRaises == irv.pc \in {"cast", "run", "done"} => ~irv.raised

\* a round of the election has been completed
RoundCompleted == irv.pc \in {"run", "done"} /\ irv.round >= 1

\* the choices the elimination vector ind_elim leaves in the election
Remaining(ind_elim) == {c \in 0..(Len(ind_elim) - 1) : ind_elim[c + 1].value = 0}

\* the highest-ranked choice of ordering that is in remaining, -1 if none
HighestRanked(ordering, remaining) ==
    IF \E i \in 1..Len(ordering) : ordering[i] \in remaining
    THEN ordering[CHOOSE i \in 1..Len(ordering) :
                     /\ ordering[i] \in remaining
                     /\ \A j \in 1..(i - 1) : ordering[j] \notin remaining]
    ELSE 0 - 1

RECURSIVE CastBallotsFor(_, _, _, _)
\* the number of ballots of the ballot box cast, over the orderings keys,
\* whose highest-ranked remaining choice is c
CastBallotsFor(cast, keys, remaining, c) ==
    IF Len(keys) = 0 THEN 0
    ELSE (IF HighestRanked(Head(keys), remaining) = c THEN cast[Head(keys)].value ELSE 0)
         + CastBallotsFor(cast, Tail(keys), remaining, c)

\* C26: IRV vote transfer is correct in every round: for every set of cast
\* complete or partial orderings, after each completed round and for every
\* choice c not yet eliminated, get_n_ballots_with_first_choice(c) equals
\* the number of cast ballots whose highest-ranked not-yet-eliminated choice
\* is c, also when the next choice on a ballot was eliminated in an earlier
\* round.
C26_VotesFollowHighestRemainingChoice ==
    RoundCompleted =>
        \A c \in Remaining(irv.ind_eliminated) :
            get_n_ballots_with_first_choice(irv.mapping, irv.n_choices, c).value
                = CastBallotsFor(irv.cast_mapping, mapping_keys(irv.n_choices),
                                 Remaining(irv.ind_eliminated), c)

\* the last round was run by the first-possibility eliminator on vote
\* counts below 2^bits
FirstPossibilityRound ==
    /\ RoundCompleted
    /\ irv.choice_eliminator.kind = "EliminateFirstPossibilityEliminator"
    /\ VotesInRange(irv.votes_before, irv.choice_eliminator.bits)

\* the choices that had the fewest votes among those left when the last
\* round started
MinimalRemaining ==
    {c \in Remaining(irv.before_round) :
        \A o \in Remaining(irv.before_round) :
            irv.votes_before[c + 1].value <= irv.votes_before[o + 1].value}

\* C29: with the first-possibility eliminator, in every round in which at
\* least one choice is not yet eliminated, eliminate_choice returns a 0/1
\* vector with exactly one 1, placed at the lowest-indexed choice among the
\* not-yet-eliminated choices whose current vote count (values below
\* 2^bits) is minimal; it never selects an already eliminated choice.
C29_FirstPossibilityEliminatesLowestMinimum ==
    FirstPossibilityRound =>
        \A c \in 0..(irv.n_choices - 1) :
            irv.ind_eliminated[c + 1].value - irv.before_round[c + 1].value
                = (IF /\ c \in MinimalRemaining
                      /\ \A o \in MinimalRemaining : c <= o
                   THEN 1 ELSE 0)

\* the second round of an election has eliminated choice 1, tied with
\* choice 2, while choice 0, eliminated in the first round, still had fewer
\* votes than both
C29_Witness ==
    /\ FirstPossibilityRound
    /\ irv.round = 2
    /\ Remaining(irv.before_round) = {1, 2}
    /\ irv.votes_before[1].value < irv.votes_before[2].value
    /\ irv.votes_before[2].value = irv.votes_before[3].value
    /\ Remaining(irv.ind_eliminated) = {2}

\* the last round was run by the NSW eliminator, every round of the call
\* having started on vote counts below 2^bits
NSWRound ==
    /\ RoundCompleted
    /\ irv.choice_eliminator.kind = "NSWEliminator"
    /\ irv.counts_in_range

\* the choices the last round eliminated
EliminatedInRound ==
    {c \in 0..(irv.n_choices - 1) :
        irv.ind_eliminated[c + 1].value - irv.before_round[c + 1].value = 1}

\* the tied choices that attain the minimum of votes among the tied choices
RestrictedMinima(votes, tied) ==
    {c \in tied : \A o \in tied : votes[c + 1].value <= votes[o + 1].value}

\* votes breaks the tie: exactly one tied choice attains the restricted
\* minimum
BreaksTie(votes, tied) == Cardinality(RestrictedMinima(votes, tied)) = 1

\* C28: in round k of an NSW election, when no earlier round's vote vector
\* breaks the tie, the eliminated choice is the tied choice with the
\* smallest value in randomness_per_round[k], the randomness supplied for
\* that same round.
C28_TieBrokenByRandomnessOfTheRound ==
    /\ NSWRound
    /\ irv.election = 1
    /\ \A j \in 1..Len(irv.eliminator_before.votes_per_round) :
          ~BreaksTie(irv.eliminator_before.votes_per_round[j], MinimalRemaining)
    => EliminatedInRound
           = RestrictedMinima(irv.choice_eliminator.randomness_per_round[irv.round],
                              MinimalRemaining)

\* the vectors break_ties scans in the last round, in the order of the scan:
\* the stored vote vectors from the most recent to the oldest, then the
\* randomness it reads
NSWScan ==
    Reverse(irv.eliminator_before.votes_per_round)
        \o <<irv.eliminator_before.randomness_per_round[
                 irv.eliminator_before.current_round + 1]>>

\* the position in the scan of the first vector that breaks the tie
FirstDecisive ==
    CHOOSE j \in 1..Len(NSWScan) :
        /\ BreaksTie(NSWScan[j], MinimalRemaining)
        /\ \A i \in 1..(j - 1) : ~BreaksTie(NSWScan[i], MinimalRemaining)

\* C27: in every round of an NSW election the tie among the minimum-vote
\* choices is decided by the first vector of the scan in which exactly one
\* tied choice attains the restricted minimum; once such a vector has
\* selected a choice, no later vector in the scan changes the selection.
C27_FirstDecisiveVectorDecides ==
    NSWRound =>
        EliminatedInRound = RestrictedMinima(NSWScan[FirstDecisive], MinimalRemaining)

\* with at most two vectors in the scan the first vector that breaks the tie
\* decides
NSWShortScansDecideByFirstVector ==
    NSWRound /\ Len(NSWScan) <= 2 =>
        EliminatedInRound = RestrictedMinima(NSWScan[FirstDecisive], MinimalRemaining)

RECURSIVE election_result(_, _)
\* the vector evaluate_election returns after turns more turns of its loop
election_result(self, turns) ==
    IF turns = 0 THEN self.ind_eliminated
    ELSE election_result(evaluate_election_turn(self), turns - 1)

\* a freshly created IRV object with a fresh eliminator, called on a fresh
\* ballot manager holding the cast ballots
FreshElection ==
    [irv EXCEPT !.mapping = irv.cast_mapping,
                !.choice_eliminator = [@ EXCEPT !.votes_per_round = <<>>],
                !.ind_eliminated = ZeroList(irv.group, irv.n_choices),
                !.round = 0]

\* C30: the result of evaluate_election depends only on the ballots and
\* n_rounds passed to that call: a second call on the same IRV object (same
\* eliminator, including NSW) with a fresh ballot manager holding the same
\* cast ballots returns the same elimination vector as the first call and
\* as a freshly created IRV object would; no tie-break state from an earlier
\* election influences a later one.
C30_SecondCallReturnsTheSame ==
    irv.pc = "done" /\ irv.election = 2 =>
        /\ irv.n_rounds = irv.first_n_rounds => irv.ind_eliminated = irv.first_result
        /\ irv.ind_eliminated = election_result(FreshElection, irv.n_rounds)

====
